---------------------------- MODULE Spec2Model ----------------------------
(***************************************************************************)
(* A model of the voxel world of src/src/world/chunk.rs and world.rs:     *)
(* the dense block array with its dirty-region bitmap (Chunk), terrain    *)
(* generation, and the World operations that read and write the chunk.    *)
(*                                                                         *)
(* Scale.  The program's volume is 512 x 96 x 512 cells in regions of 16  *)
(* cells; the model keeps every formula of the code and shrinks the       *)
(* numbers: a region is CHUNK_REGION_SIZE = 2 cells wide and the volume   *)
(* is RegionsX x RegionsY x RegionsZ regions, so that CHUNK_WIDTH,        *)
(* CHUNK_HEIGHT and CHUNK_DEPTH stay multiples of the region size as they *)
(* are in the code.  The terrain's lower height clamp (8) and sea level   *)
(* (30) are shrunk alike.                                                  *)
(*                                                                         *)
(* Numbers.  f32 positions are fixed-point integers in 1/1000 of a cell   *)
(* (every step, speed and offset of the code is a multiple of 0.001);     *)
(* rounding error of f32 arithmetic is not modelled.  Ray directions are  *)
(* integer vectors whose length is an integer, so normalize() is exact.   *)
(***************************************************************************)
EXTENDS Integers, Sequences, FiniteSets, TLC

VARIABLES
    blocks,         \* Chunk.blocks: linear index -> Block
    dirty_regions,  \* Chunk.dirty_regions: region index -> BOOLEAN
    origin_x,       \* Chunk.origin_x
    origin_z,       \* Chunk.origin_z
    mobs,           \* World.mobs
    bullets,        \* World.bullets
    explosives,     \* World.explosives
    particles,      \* World.particles: number of particles in the list
    spawn_timer,    \* World.spawn_timer
    last,           \* the operation that produced this state and its inputs
    ret,            \* what that operation returned
    preBlocks,      \* blocks before that operation
    preDirty,       \* dirty_regions before that operation
    preMobs,        \* number of mobs before that operation
    preMarked,      \* marked before that operation
    stamped,        \* linear indices the structure pass of generate_at wrote
    marked,         \* region indices that became due since the last drain
    steps,          \* operations performed so far
    pre,            \* the mobs, bullets, explosives and particles before it
    hitLog,         \* of the last update_bullets or update_explosives, by
                    \* the entries' places in the list before the call:
                    \* which bullet damaged which mob (hits), which entries
                    \* stayed, in order (kept), which entries the loop
                    \* advanced, in order (visits), and the explode_at calls
                    \* made (blasts); of the last update_mobs: the axis
                    \* moves accepted (moves) and the mobs that attacked
                    \* (attacks), in order
    gen             \* generate_at's worker pool: the shared column counter,
                    \* the workers that left their loop, each worker's list
                    \* of produced (x, slab) pairs

vars == <<blocks, dirty_regions, origin_x, origin_z, mobs, particles,
          spawn_timer, last,
          ret, preBlocks, preDirty, preMobs, preMarked, stamped, marked,
          steps, gen, bullets, explosives, pre, hitLog>>

----------------------------------------------------------------------------
(* Sizes *)

CHUNK_REGION_SIZE == 2

RegionsX == 3
RegionsY == 2
RegionsZ == 2

CHUNK_WIDTH == RegionsX * CHUNK_REGION_SIZE
CHUNK_HEIGHT == RegionsY * CHUNK_REGION_SIZE
CHUNK_DEPTH == RegionsZ * CHUNK_REGION_SIZE

MaxSteps == 2

NumCells == CHUNK_WIDTH * CHUNK_HEIGHT * CHUNK_DEPTH
NumRegions == RegionsX * RegionsY * RegionsZ

Min(a, b) == IF a < b THEN a ELSE b
Max(a, b) == IF a > b THEN a ELSE b
Abs(a) == IF a < 0 THEN -a ELSE a
Clamp(v, lo, hi) == IF v < lo THEN lo ELSE IF v > hi THEN hi ELSE v

\* f32::floor and f32::ceil of a fixed-point value, as a whole number of cells
Floor(p) == p \div 1000
Ceil(p) == -((-p) \div 1000)

----------------------------------------------------------------------------
(* Block and Biome *)

Block == {"Air", "Grass", "Dirt", "Stone", "Sand", "Wood", "Planks",
          "Bricks", "Glass", "Leaf", "Snow", "Target", "Water", "Mud",
          "Cobblestone", "CoalOre", "IronOre", "GoldOre", "DiamondOre",
          "Gravel", "Clay", "Basalt", "Moss", "RedSand", "Ice", "Cactus"}

Biome == {"Plains", "Forest", "Desert", "SnowBiome", "Mountains", "Swamp"}

----------------------------------------------------------------------------
(* Chunk: indexing *)

IndexWithoutDepth(x, y, z) == x + z * CHUNK_WIDTH + y * CHUNK_WIDTH

index(x, y, z) == x + z * CHUNK_WIDTH + y * CHUNK_WIDTH * CHUNK_DEPTH

region_index(rx, ry, rz) == rx + rz * RegionsX + ry * RegionsX * RegionsZ

InVolume(x, y, z) ==
    /\ x >= 0 /\ x < CHUNK_WIDTH
    /\ y >= 0 /\ y < CHUNK_HEIGHT
    /\ z >= 0 /\ z < CHUNK_DEPTH

----------------------------------------------------------------------------
(* Terrain generator *)

\* Bitwise xor of two naturals
RECURSIVE XorNat(_, _)
XorNat(a, b) ==
    IF a = 0 THEN b
    ELSE IF b = 0 THEN a
    ELSE (((a % 2) + (b % 2)) % 2) + 2 * XorNat(a \div 2, b \div 2)

\* i64 ^ in two's complement: ~v = -v - 1 is a natural when v < 0
Xor(a, b) ==
    IF a >= 0 /\ b >= 0 THEN XorNat(a, b)
    ELSE IF a < 0 /\ b < 0 THEN XorNat(-a - 1, -b - 1)
    ELSE IF a < 0 THEN -XorNat(-a - 1, b) - 1
    ELSE -XorNat(a, -b - 1) - 1

\* Rust's i32 %: the remainder has the sign of the dividend
Rem(a, n) == IF a >= 0 \/ a % n = 0 THEN a % n ELSE (a % n) - n

(* i32 arithmetic.  An i32 +, - or * whose result leaves                  *)
(* I32_MIN .. I32_MAX panics in a build with overflow checks and wraps    *)
(* modulo 2^32 in a build without.  The operators below tell whether an   *)
(* operation overflows and give its wrapped result, without forming a     *)
(* number outside the i32 range.                                           *)

I32_MAX == 2147483647
I32_MIN == -I32_MAX - 1

AddOverflows(a, b) ==
    IF b >= 0 THEN a > I32_MAX - b ELSE a < I32_MIN - b

SubOverflows(a, b) ==
    IF b >= 0 THEN a < I32_MIN + b ELSE a > I32_MAX + b

\* a * k for a constant k > 0
MulOverflows(a, k) ==
    \/ a > I32_MAX \div k
    \/ a < -(I32_MAX \div k) - (IF I32_MAX % k = k - 1 THEN 1 ELSE 0)

WrapAdd(a, b) ==
    IF ~ AddOverflows(a, b) THEN a + b
    ELSE IF b >= 0 THEN (a - I32_MAX - 1) + (b - I32_MAX - 1)
    ELSE (a + I32_MAX + 1) + (b + I32_MAX + 1)

WrapSub(a, b) ==
    IF ~ SubOverflows(a, b) THEN a - b
    ELSE IF b >= 0 THEN (a + I32_MAX + 1) + ((I32_MAX - b) + 1)
    ELSE (a - I32_MAX - 1) + (-(b + I32_MAX) - 1)

RECURSIVE WrapMul(_, _)
WrapMul(a, k) ==
    IF ~ MulOverflows(a, k) THEN a * k
    ELSE IF k = 1 THEN a
    ELSE WrapAdd(WrapMul(a, k - 1), a)

\* x * a + z * b + t as the code evaluates it, left to right
LinOverflows(x, a, z, b, t) ==
    \/ MulOverflows(x, a)
    \/ MulOverflows(z, b)
    \/ AddOverflows(x * a, z * b)
    \/ AddOverflows(x * a + z * b, t)

Lin(x, a, z, b, t) == WrapAdd(WrapAdd(WrapMul(x, a), WrapMul(z, b)), t)

OreAt(x, y, z, salt) ==
    IF y < 10 /\ Rem(Lin(x, 1, z, 1, y), 43) = 0 THEN "DiamondOre"
    ELSE IF y < 20 /\ Rem(Lin(x, 3, z, 5, y), 37) = 0 THEN "GoldOre"
    ELSE IF y < 34 /\ Rem(Lin(x, 7, z, 11, y * 2), 29) = 0 THEN "IronOre"
    ELSE IF y < 40 /\ Rem(Lin(x, 13, z, 17, y * 3), 19) = 0 THEN "CoalOre"
    ELSE IF y < 14 THEN "Basalt"
    ELSE IF y < 26 /\ (salt + y) % 9 = 0 THEN "Gravel"
    ELSE IF y < 28 /\ (salt + (y * 3)) % 21 = 0 THEN "Clay"
    ELSE "Stone"

stone_with_ores(x, y, z) ==
    OreAt(x, y, z, Abs(Xor(x * 73856093, z * 19349663)) % 65537)

\* some i32 operation of stone_with_ores(x, y, z) overflows; the conditions
\* are evaluated in order and && stops at a false left side
ore_overflows(x, y, z) ==
    IF y < 10 /\ LinOverflows(x, 1, z, 1, y) THEN TRUE
    ELSE IF y < 10 /\ Rem(Lin(x, 1, z, 1, y), 43) = 0 THEN FALSE
    ELSE IF y < 20 /\ LinOverflows(x, 3, z, 5, y) THEN TRUE
    ELSE IF y < 20 /\ Rem(Lin(x, 3, z, 5, y), 37) = 0 THEN FALSE
    ELSE IF y < 34 /\ LinOverflows(x, 7, z, 11, y * 2) THEN TRUE
    ELSE IF y < 34 /\ Rem(Lin(x, 7, z, 11, y * 2), 29) = 0 THEN FALSE
    ELSE y < 40 /\ LinOverflows(x, 13, z, 17, y * 3)

\* a biome's arm of terrain_block_at: the top block, `thickness - 1` cells of
\* the band below it, then stone
SurfaceBand(depth, top, band, thickness, stone) ==
    IF depth = 0 THEN top
    ELSE IF depth < thickness THEN band
    ELSE stone

Layer(biome, h, depth, stone) ==
    CASE biome = "Desert" -> SurfaceBand(depth, "Sand", "RedSand", 4, stone)
      [] biome = "SnowBiome" -> SurfaceBand(depth, "Snow", "Dirt", 3, stone)
      [] biome = "Swamp" -> SurfaceBand(depth, "Moss", "Mud", 4, stone)
      [] biome = "Mountains" -> IF depth = 0 /\ h > 52 THEN "Snow" ELSE stone
      [] OTHER -> SurfaceBand(depth, "Grass", "Dirt", 4, stone)

terrain_block_at(wx, y, wz, biome, h, sea_level) ==
    IF y > h
    THEN IF y <= sea_level
         THEN (IF biome = "SnowBiome" THEN "Ice" ELSE "Water")
         ELSE "Air"
    ELSE Layer(biome, h, IF h >= y THEN h - y ELSE 0, stone_with_ores(wx, y, wz))

\* terrain_block_at in a build with or without overflow checks: with them
\* an overflow in stone_with_ores panics
terrain_block_at_call(wx, y, wz, biome, h, sea_level, overflow_checks) ==
    IF /\ overflow_checks
       /\ y <= h
       /\ Layer(biome, h, h - y, "Stone") = "Stone"
       /\ ore_overflows(wx, y, wz)
    THEN "panic"
    ELSE terrain_block_at(wx, y, wz, biome, h, sea_level)

\* The noise fields are sums of f32 sines and cosines of the column.  The
\* model keeps what the code relies on, a fixed function of (x, z) with
\* values in [-1, 1], here in hundredths: a triangle wave of the same shape.
Wave(t) == LET m == t % 400 IN (IF m < 200 THEN m ELSE 400 - m) - 100

\* Wave has period 400, so the column is reduced before it is scaled
noise(x, z, x_mul, z_mul) ==
    (Wave((x % 400) * x_mul) + Wave((z % 400) * z_mul + 100)) \div 2

\* the thresholds biome_at applies to its two fields
BiomeOf(heat, moisture) ==
    IF heat > 62 THEN "Desert"
    ELSE IF heat < -45 THEN "SnowBiome"
    ELSE IF moisture > 65 THEN "Swamp"
    ELSE IF moisture < -35 THEN "Mountains"
    ELSE IF moisture > 20 THEN "Forest"
    ELSE "Plains"

biome_at(x, z) ==
    BiomeOf(noise(x, z, 91, 77) + (noise(x, z, 41, 37) * 4) \div 10,
            noise(x, z, 59, 143) + (noise(x, z, 83, 42) * 5) \div 10)

\* Lower clamp of the surface height (8 of 96 in the code) and the sea
\* level (30 of 96), shrunk with the volume.
TERRAIN_MIN_HEIGHT == 1
SEA_LEVEL == 2

\* base height per biome plus noise, clamped to [min, CHUNK_HEIGHT - 2]
BaseHeight(biome, half, macro_shape, detail, ridge) ==
    CASE biome = "Plains" -> half + macro_shape + detail
      [] biome = "Forest" -> half + 20 + macro_shape + detail
      [] biome = "Desert" -> half - 40 + macro_shape
      [] biome = "SnowBiome" -> half + 40 + macro_shape + ridge
      [] biome = "Mountains" -> half + 80 + macro_shape + ridge
      [] OTHER -> half - 60 + macro_shape

terrain_height(x, z, biome) ==
    Clamp(BaseHeight(biome, CHUNK_HEIGHT * 50, noise(x, z, 11, 11),
                     noise(x, z, 42, 28), Abs(noise(x, z, 75, 116))) \div 100,
          TERRAIN_MIN_HEIGHT, CHUNK_HEIGHT - 2)

\* biome_at and the clamped terrain_height of a column.  TLC computes the
\* columns near the volume once, here, instead of at every read.
NearX == (-2 * CHUNK_WIDTH) .. (2 * CHUNK_WIDTH)
NearZ == (-2 * CHUNK_DEPTH) .. (2 * CHUNK_DEPTH)

ColumnIn(x, z, biome) ==
    [biome |-> biome,
     h |-> Clamp(terrain_height(x, z, biome), TERRAIN_MIN_HEIGHT,
                 IF CHUNK_HEIGHT >= 2 THEN CHUNK_HEIGHT - 2 ELSE 0)]

ColumnOf(x, z) == ColumnIn(x, z, biome_at(x, z))

NearColumns == [x \in NearX |-> [z \in NearZ |-> ColumnOf(x, z)]]

Column(x, z) ==
    IF x \in NearX /\ z \in NearZ THEN NearColumns[x][z] ELSE ColumnOf(x, z)

ColumnBlock(x, y, z, col) ==
    terrain_block_at(x, y, z, col.biome, col.h, SEA_LEVEL)

procedural_block_at(x, y, z) == ColumnBlock(x, y, z, Column(x, z))

\* terrain_block_at reaches stone_with_ores at height y of a column
ReachesStone(col, y) ==
    /\ y <= col.h
    /\ Layer(col.biome, col.h, col.h - y, "Stone") = "Stone"

\* some i32 operation of procedural_block_at(x, y, z) overflows
procedural_overflows(x, y, z) ==
    ReachesStone(Column(x, z), y) /\ ore_overflows(x, y, z)

----------------------------------------------------------------------------
(* Chunk: reads, writes and the dirty-region bitmap.  A chunk value is the *)
(* record [blocks, dirty_regions, origin_x, origin_z].                     *)

Cells == 0 .. (NumCells - 1)
RegionIds == 0 .. (NumRegions - 1)

\* the local cell a linear index stands for, under index()
CellX(i) == i % CHUNK_WIDTH
CellZ(i) == (i \div CHUNK_WIDTH) % CHUNK_DEPTH
CellY(i) == i \div (CHUNK_WIDTH * CHUNK_DEPTH)

get_i32(c, x, y, z) ==
    IF y < 0 \/ y >= CHUNK_HEIGHT THEN "Air"
    ELSE LET lx == WrapSub(x, c.origin_x)
             lz == WrapSub(z, c.origin_z)
         IN  IF lx >= 0 /\ lz >= 0 /\ lx < CHUNK_WIDTH /\ lz < CHUNK_DEPTH
             THEN c.blocks[index(lx, y, lz)]
             ELSE procedural_block_at(x, y, z)

\* some i32 operation of get_i32(x, y, z) overflows
get_i32_overflows(c, x, y, z) ==
    /\ y >= 0
    /\ y < CHUNK_HEIGHT
    /\ \/ SubOverflows(x, c.origin_x)
       \/ SubOverflows(z, c.origin_z)
       \/ /\ ~ InVolume(x - c.origin_x, y, z - c.origin_z)
          /\ procedural_overflows(x, y, z)

\* what a call of get_i32 yields in a build with overflow checks (the
\* default of a debug build) and in one without (of a release build)
get_i32_call(c, x, y, z, overflow_checks) ==
    IF overflow_checks /\ get_i32_overflows(c, x, y, z) THEN "panic"
    ELSE get_i32(c, x, y, z)

MarkOnlyOwnRegion(dirty, x, y, z) ==
    LET own == region_index(x \div CHUNK_REGION_SIZE, y \div CHUNK_REGION_SIZE,
                            z \div CHUNK_REGION_SIZE)
    IN  [i \in DOMAIN dirty |-> dirty[i] \/ i = own]

mark_region_dirty_by_block(dirty, x, y, z) ==
    LET rx == x \div CHUNK_REGION_SIZE
        ry == y \div CHUNK_REGION_SIZE
        rz == z \div CHUNK_REGION_SIZE
        hit == { region_index(rx + dx, ry + dy, rz + dz) :
                   <<dx, dy, dz>> \in
                     { d \in {-1, 0, 1} \X {-1, 0, 1} \X {-1, 0, 1} :
                         ~ (\/ rx + d[1] < 0
                            \/ ry + d[2] < 0
                            \/ rz + d[3] < 0
                            \/ rx + d[1] >= RegionsX
                            \/ ry + d[2] >= RegionsY
                            \/ rz + d[3] >= RegionsZ) } }
    IN  [i \in DOMAIN dirty |-> dirty[i] \/ i \in hit]

SetAlwaysMarks(c, x, y, z, block) ==
    IF x < CHUNK_WIDTH /\ y < CHUNK_HEIGHT /\ z < CHUNK_DEPTH
    THEN [c EXCEPT !.blocks[index(x, y, z)] = block,
                   !.dirty_regions =
                       mark_region_dirty_by_block(c.dirty_regions, x, y, z)]
    ELSE c

SetWritesMirrored(c, x, y, z, block) ==
    IF x < CHUNK_WIDTH /\ y < CHUNK_HEIGHT /\ z < CHUNK_DEPTH
    THEN LET idx == index(CHUNK_WIDTH - 1 - x, y, z)
         IN  IF c.blocks[idx] # block
             THEN [c EXCEPT !.blocks[idx] = block,
                            !.dirty_regions =
                                mark_region_dirty_by_block(c.dirty_regions, x, y, z)]
             ELSE c
    ELSE c

SetChecksArrayOnly(c, x, y, z, block) ==
    IF index(x, y, z) < NumCells
    THEN LET idx == index(x, y, z)
         IN  IF c.blocks[idx] # block
             THEN [c EXCEPT !.blocks[idx] = block,
                            !.dirty_regions =
                                mark_region_dirty_by_block(c.dirty_regions,
                                    CellX(idx), CellY(idx), CellZ(idx))]
             ELSE c
    ELSE c

\* Chunk::set; x, y, z are usize, so never negative
set(c, x, y, z, block) ==
    IF x < CHUNK_WIDTH /\ y < CHUNK_HEIGHT /\ z < CHUNK_DEPTH
    THEN LET idx == index(x, y, z)
         IN  IF c.blocks[idx] # block
             THEN [c EXCEPT !.blocks[idx] = block,
                            !.dirty_regions =
                                mark_region_dirty_by_block(c.dirty_regions, x, y, z)]
             ELSE c
    ELSE c

set_i32(c, x, y, z, block) ==
    IF y < 0 \/ y >= CHUNK_HEIGHT THEN c
    ELSE LET lx == x - c.origin_x
             lz == z - c.origin_z
         IN  IF lx >= 0 /\ lz >= 0 /\ lx < CHUNK_WIDTH /\ lz < CHUNK_DEPTH
             THEN set(c, lx, y, lz, block)
             ELSE c

\* the regions in the order take_dirty_regions visits them: ry, then rz, then rx
RegionOrder ==
    [k \in 1 .. NumRegions |->
        << (k - 1) % RegionsX,
           (k - 1) \div (RegionsX * RegionsZ),
           ((k - 1) \div RegionsX) % RegionsZ >>]

TakeKeepsBits(c) ==
    [chunk |-> c,
     out |-> SelectSeq(RegionOrder,
                 LAMBDA r : c.dirty_regions[region_index(r[1], r[2], r[3])])]

\* Chunk::take_dirty_regions: the chunk afterwards and the returned list
take_dirty_regions(c) ==
    [chunk |-> [c EXCEPT !.dirty_regions = [i \in RegionIds |-> FALSE]],
     out |-> SelectSeq(RegionOrder,
                 LAMBDA r : c.dirty_regions[region_index(r[1], r[2], r[3])])]

----------------------------------------------------------------------------
(* Chunk::new and Chunk::generate_at *)

NewChunkClean ==
    [blocks |-> [i \in Cells |-> "Air"],
     dirty_regions |-> [r \in RegionIds |-> FALSE],
     origin_x |-> -(CHUNK_WIDTH \div 2),
     origin_z |-> -(CHUNK_DEPTH \div 2)]

new_chunk ==
    [blocks |-> [i \in Cells |-> "Air"],
     dirty_regions |-> [r \in RegionIds |-> TRUE],
     origin_x |-> -(CHUNK_WIDTH \div 2),
     origin_z |-> -(CHUNK_DEPTH \div 2)]

\* What a worker writes at slab[z * CHUNK_HEIGHT + y] of column x
slab_block(ox, oz, x, idx) ==
    ColumnBlock(ox + x, idx % CHUNK_HEIGHT, oz + (idx \div CHUNK_HEIGHT),
                Column(ox + x, oz + (idx \div CHUNK_HEIGHT)))

\* blocks[x * H * D .. (x + 1) * H * D) = slabs[x]
bulk_blocks(ox, oz) ==
    [i \in Cells |->
        slab_block(ox, oz, i \div (CHUNK_HEIGHT * CHUNK_DEPTH),
                   i % (CHUNK_HEIGHT * CHUNK_DEPTH))]

\* A run of set() calls, in the order given; each entry is <<x, y, z, block>>
RECURSIVE SetAll(_, _)
SetAll(c, writes) ==
    IF writes = << >> THEN c
    ELSE SetAll(set(c, writes[1][1], writes[1][2], writes[1][3], writes[1][4]),
                Tail(writes))

add_house(c, x0, y0, z0, w, h, d) ==
    LET xs == x0 .. (Min(x0 + w, CHUNK_WIDTH - 1) - 1)
        zs == z0 .. (Min(z0 + d, CHUNK_DEPTH - 1) - 1)
        ys == y0 .. (Min(y0 + h, CHUNK_HEIGHT - 1) - 1)
        InBox(i) == CellX(i) \in xs /\ CellY(i) \in ys /\ CellZ(i) \in zs
        Piece(x, y, z) ==
            LET wall == x = x0 \/ x = x0 + w - 1 \/ z = z0 \/ z = z0 + d - 1
                roof == y = y0 + h - 1
                floor == y = y0
                is_window ==
                    /\ y > y0 + 1
                    /\ y < y0 + h - 2
                    /\ \/ (x = x0 \/ x = x0 + w - 1) /\ z = z0 + (d \div 2)
                       \/ (z = z0 \/ z = z0 + d - 1) /\ x = x0 + (w \div 2)
            IN  IF roof THEN "Planks"
                ELSE IF floor THEN "Cobblestone"
                ELSE IF wall THEN (IF is_window THEN "Glass" ELSE "Bricks")
                ELSE "Air"
        walls == [c EXCEPT !.blocks =
                     [i \in Cells |->
                         IF InBox(i) THEN Piece(CellX(i), CellY(i), CellZ(i))
                         ELSE c.blocks[i]]]
        door_x == x0 + (w \div 2)
    IN  SetAll(walls, << <<door_x, y0 + 1, z0, "Air">>,
                         <<door_x, y0 + 2, z0, "Air">> >>)

TopOf(ys) == CHOOSE y \in ys : \A o \in ys : o <= y

\* Some(y + 1) for the highest y whose block is a ground block, or -1 for None
GroundOf(ys) == IF ys = {} THEN -1 ELSE TopOf(ys) + 1

GroundAbove(c, x, z, grounds) ==
    GroundOf({ y \in 0 .. (CHUNK_HEIGHT - 1) :
                 get_i32(c, c.origin_x + x, y, c.origin_z + z) \in grounds })

\* add_tree once the ground is found: the trunk, then the canopy around its top
grow_tree(c, x, z, trunk, top) ==
    LET grown == [i \in Cells |->
                     IF CellX(i) = x /\ CellZ(i) = z /\ CellY(i) \in trunk
                     THEN "Wood" ELSE c.blocks[i]]
        lxs == Max(x - 2, 0) .. Min(x + 2, CHUNK_WIDTH - 1)
        lzs == Max(z - 2, 0) .. Min(z + 2, CHUNK_DEPTH - 1)
        lys == Max(top - 2, 0) .. Min(top + 1, CHUNK_HEIGHT - 1)
    IN  [c EXCEPT !.blocks =
            [i \in Cells |->
                IF /\ CellX(i) \in lxs
                   /\ CellZ(i) \in lzs
                   /\ CellY(i) \in lys
                   /\ grown[i] = "Air"
                THEN "Leaf" ELSE grown[i]]]

tree_on(c, x, z, ground, trunk_h) ==
    IF ground = -1 THEN c
    ELSE grow_tree(c, x, z, ground .. (Min(ground + trunk_h, CHUNK_HEIGHT) - 1),
                   Min(ground + trunk_h, CHUNK_HEIGHT - 1))

add_tree(c, x, z) ==
    IF x >= CHUNK_WIDTH \/ z >= CHUNK_DEPTH THEN c
    ELSE tree_on(c, x, z,
                 GroundAbove(c, x, z, Block \ {"Air", "Water"}),
                 5 + ((x + z) % 3))

cactus_on(c, x, z, ground, h) ==
    IF ground = -1 THEN c
    ELSE [c EXCEPT !.blocks =
             [i \in Cells |->
                 IF /\ CellX(i) = x /\ CellZ(i) = z
                    /\ CellY(i) \in ground .. (Min(ground + h, CHUNK_HEIGHT) - 1)
                 THEN "Cactus" ELSE c.blocks[i]]]

add_cactus(c, x, z) ==
    IF x >= CHUNK_WIDTH \/ z >= CHUNK_DEPTH THEN c
    ELSE cactus_on(c, x, z,
                   GroundAbove(c, x, z, {"Sand", "RedSand"}),
                   2 + ((x * 17 + z * 11) % 3))

add_target(c, center_x, center_y, center_z) ==
    IF center_x < 2 \/ center_y < 2 \/ center_z < 2 THEN c
    ELSE LET xs == (center_x - 2) .. Min(center_x + 2, CHUNK_WIDTH - 1)
             ys == (center_y - 2) .. Min(center_y + 2, CHUNK_HEIGHT - 1)
             z == Min(center_z, CHUNK_DEPTH - 1)
         IN  [c EXCEPT !.blocks =
                 [i \in Cells |->
                     IF CellX(i) \in xs /\ CellY(i) \in ys /\ CellZ(i) = z
                     THEN "Target" ELSE c.blocks[i]]]

\* The plant grid: the code visits x and z in (10 .. 512 - 10) by 24; the
\* model, in (1 .. CHUNK_WIDTH - 1) by 3, x outermost.
PlantSites ==
    LET xs == { x \in 1 .. (CHUNK_WIDTH - 2) : (x - 1) % 3 = 0 }
        zs == { z \in 1 .. (CHUNK_DEPTH - 2) : (z - 1) % 3 = 0 }
        nz == Cardinality(zs)
        Nth(S, k) == CHOOSE v \in S : Cardinality({u \in S : u < v}) = k
    IN  [k \in 1 .. (Cardinality(xs) * nz) |->
            << Nth(xs, (k - 1) \div nz), Nth(zs, (k - 1) % nz) >>]

RECURSIVE Plant(_, _)
Plant(c, sites) ==
    IF sites = << >> THEN c
    ELSE LET x == sites[1][1]
             z == sites[1][2]
             biome == biome_at(c.origin_x + x, c.origin_z + z)
         IN  Plant(IF biome = "Forest" THEN add_tree(c, x, z)
                   ELSE IF biome = "Desert" THEN add_cactus(c, x, z)
                   ELSE c,
                   Tail(sites))

\* The chunk after the column pass: the slabs copied into the block array
generated_terrain(c, ox, oz) ==
    [c EXCEPT !.origin_x = ox, !.origin_z = oz, !.blocks = bulk_blocks(ox, oz)]

\* The structure pass.  The code's four houses and its target stand at fixed
\* cells of the 512 x 96 x 512 volume; the model keeps the calls and moves
\* them into its volume.  Each house is <<x0, y0, z0, w, h, d>>.
Houses ==
    << <<0, 1, 0, 3, 3, 3>>,
       <<3, 1, 2, 3, 2, 3>>,
       <<CHUNK_WIDTH - 2, 2, 0, 3, 3, 2>>,
       <<CHUNK_WIDTH, 2, CHUNK_DEPTH, 4, 3, 3>> >>

TargetCenter == <<CHUNK_WIDTH - 1, 2, CHUNK_DEPTH - 1>>

RECURSIVE Build(_, _)
Build(c, houses) ==
    IF houses = << >> THEN c
    ELSE LET h == houses[1]
         IN  Build(add_house(c, h[1], h[2], h[3], h[4], h[5], h[6]), Tail(houses))

stamp_structures(c) ==
    add_target(Build(Plant(c, PlantSites), Houses),
               TargetCenter[1], TargetCenter[2], TargetCenter[3])

generate_at(c, ox, oz) ==
    [stamp_structures(generated_terrain(c, ox, oz))
        EXCEPT !.dirty_regions = [r \in RegionIds |-> TRUE]]

(* generate_at step by step.  worker_count threads share the counter      *)
(* next_x; a thread takes the next column with fetch_add, fills a slab for *)
(* it and pushes (x, slab) on its own list until the counter has passed   *)
(* the last column.  The handles are then joined in the order the threads *)
(* were started and each pair is stored at slabs[x].                       *)

SlabCells == 0 .. (CHUNK_HEIGHT * CHUNK_DEPTH - 1)

\* the slab a worker fills for column x
slab(ox, oz, x) == [idx \in SlabCells |-> slab_block(ox, oz, x, idx)]

\* vec![vec![Block::Air; CHUNK_HEIGHT * CHUNK_DEPTH]; CHUNK_WIDTH]
EmptySlabs == [x \in 0 .. (CHUNK_WIDTH - 1) |-> [idx \in SlabCells |-> "Air"]]

RECURSIVE JoinByArrival(_, _)
JoinByArrival(slabs, produced) ==
    IF produced = << >> THEN slabs
    ELSE JoinByArrival(
             [slabs EXCEPT ![Len(produced) - 1] = produced[Len(produced)][2]],
             SubSeq(produced, 1, Len(produced) - 1))

\* for (x, slab) in handle.join() { slabs[x] = slab }
RECURSIVE JoinHandle(_, _)
JoinHandle(slabs, produced) ==
    IF produced = << >> THEN slabs
    ELSE JoinHandle([slabs EXCEPT ![produced[1][1]] = produced[1][2]],
                    Tail(produced))

\* for handle in handles { ... }, over the workers 1 .. n in order
RECURSIVE JoinAll(_, _, _)
JoinAll(slabs, produced, w) ==
    IF w > Len(produced) THEN slabs
    ELSE JoinAll(JoinHandle(slabs, produced[w]), produced, w + 1)

\* blocks[x * H * D .. (x + 1) * H * D) = slabs[x]
copy_slabs(slabs) ==
    [i \in Cells |->
        slabs[i \div (CHUNK_HEIGHT * CHUNK_DEPTH)][i % (CHUNK_HEIGHT * CHUNK_DEPTH)]]

\* the rest of generate_at once the workers are joined; the origin is set
\* before they start
generate_from(c, produced) ==
    [stamp_structures(
         [c EXCEPT !.blocks = copy_slabs(JoinAll(EmptySlabs, produced, 1))])
        EXCEPT !.dirty_regions = [r \in RegionIds |-> TRUE]]

----------------------------------------------------------------------------
(* World.  A world value is the record [chunk, mobs, bullets, explosives, *)
(* particles]; an operation yields [world, ret].                           *)

MAX_MOBS == 20

\* `v as usize` of an i32: a negative v wraps to 2^64 + v, far beyond the
\* volume.  TLC's integers end at 2^31 - 1, which is beyond the volume too.
AsUsize(v) == IF v < 0 THEN 2147483647 + v ELSE v

None == [some |-> FALSE, v |-> 0]
Some(v) == [some |-> TRUE, v |-> v]

block_at(w, x, y, z) == get_i32(w.chunk, x, y, z)

\* spawn_particles pushes `count` particles; only the list's length is kept
spawn_particles(w, count) == [w EXCEPT !.particles = @ + count]

break_block(w, x, y, z) ==
    IF x < CHUNK_WIDTH /\ y < CHUNK_HEIGHT /\ z < CHUNK_DEPTH
    THEN [w EXCEPT !.chunk = set(w.chunk, x, y, z, "Air")]
    ELSE w

set_block(w, x, y, z, block) ==
    IF x < CHUNK_WIDTH /\ y < CHUNK_HEIGHT /\ z < CHUNK_DEPTH
    THEN [w EXCEPT !.chunk = set(w.chunk, x, y, z, block)]
    ELSE w

SomeAbove(solid) ==
    IF solid = {} THEN Some(0) ELSE Some((TopOf(solid) + 1) * 1000)

LowestSolidBelow(c, x, z, max_y) ==
    IF Floor(x) < 0 \/ Floor(z) < 0 \/ Floor(x) >= CHUNK_WIDTH
       \/ Floor(z) >= CHUNK_DEPTH
    THEN None
    ELSE Some((GroundOf({ y \in 0 .. Min(Floor(max_y), CHUNK_HEIGHT - 1) :
                           get_i32(c, Floor(x), y, Floor(z)) # "Air" } \cup {-1})
               + 1) * 1000)

highest_solid_below_chunk(c, x, z, max_y) ==
    IF Floor(x) < 0 \/ Floor(z) < 0 \/ Floor(x) >= CHUNK_WIDTH
       \/ Floor(z) >= CHUNK_DEPTH
    THEN None
    ELSE SomeAbove({ y \in 0 .. Min(Floor(max_y), CHUNK_HEIGHT - 1) :
                       get_i32(c, Floor(x), y, Floor(z)) # "Air" })

highest_solid_below(w, x, z, max_y) ==
    highest_solid_below_chunk(w.chunk, x, z, max_y)

mob_on(w, x, z, ground) ==
    IF ground.some
    THEN [w EXCEPT !.mobs = Append(@,
             [position |-> <<x, ground.v + 2000, z>>,
              health |-> 100,
              radius |-> 400,
              height |-> 1800,
              velocity_y |-> 0,
              grounded |-> FALSE,
              jump_cooldown |-> 0,
              attack_cooldown |-> 0])]
    ELSE w

SpawnIgnoresCap(w, x, z) ==
    mob_on(w, x, z, highest_solid_below(w, x, z, CHUNK_HEIGHT * 1000 - 1000))

spawn_mob_at(w, x, z) ==
    IF Len(w.mobs) >= MAX_MOBS THEN w
    ELSE mob_on(w, x, z,
                highest_solid_below(w, x, z, CHUNK_HEIGHT * 1000 - 1000))

(* Ray marching.  A direction is an integer vector whose length is an     *)
(* integer n, so direction.normalize() is direction / n; the ray is       *)
(* sampled every 0.05 while distance <= max_distance.                      *)

Magnitude(d) ==
    LET m2 == d[1] * d[1] + d[2] * d[2] + d[3] * d[3]
    IN  CHOOSE n \in 0 .. m2 : n * n = m2

\* floor of each coordinate of origin + dir * distance, where dir is d / n
\* and distance is 0.05 * k
Sample(origin, d, n, k) ==
    << Floor(origin[1] + (d[1] * 50 * k) \div n),
       Floor(origin[2] + (d[2] * 50 * k) \div n),
       Floor(origin[3] + (d[3] * 50 * k) \div n) >>

\* the samples that lie in [0, W) x [0, H) x [0, D) and read as non-Air
\* through get_i32
SampleInVolume(s) == InVolume(s[1], s[2], s[3])

SampleIsSolid(c, s) ==
    InVolume(s[1], s[2], s[3]) /\ get_i32(c, s[1], s[2], s[3]) # "Air"

SolidSamples(c, origin, d, n, max_distance) ==
    { k \in 0 .. (max_distance \div 50) :
        SampleIsSolid(c, Sample(origin, d, n, k)) }

Least(S) == CHOOSE k \in S : \A o \in S : k <= o
Greatest(S) == CHOOSE k \in S : \A o \in S : o <= k

break_sample(w, s) ==
    [world |-> spawn_particles(
                   break_block(w, AsUsize(s[1]), AsUsize(s[2]), AsUsize(s[3])),
                   12),
     ret |-> TRUE]

break_first(w, origin, direction, n, hits) ==
    IF hits = {} THEN [world |-> w, ret |-> FALSE]
    ELSE break_sample(w, Sample(origin, direction, n, Least(hits)))

break_block_from_ray(w, origin, direction, max_distance) ==
    IF direction = <<0, 0, 0>> THEN [world |-> w, ret |-> FALSE]
    ELSE break_first(w, origin, direction, Magnitude(direction),
                     SolidSamples(w.chunk, origin, direction,
                                  Magnitude(direction), max_distance))

place_sample(w, a, block) ==
    [world |-> set_block(w, AsUsize(a[1]), AsUsize(a[2]), AsUsize(a[3]), block),
     ret |-> TRUE]

\* airs: the in-volume samples before the first solid one; the last of them
\* is the code's last_air
place_last(w, origin, direction, n, airs, block) ==
    IF airs = {} THEN [world |-> w, ret |-> FALSE]
    ELSE place_sample(w, Sample(origin, direction, n, Greatest(airs)), block)

PlaceAtHit(w, origin, direction, n, hits, block) ==
    IF hits = {} THEN [world |-> w, ret |-> FALSE]
    ELSE place_sample(w, Sample(origin, direction, n, Least(hits)), block)

place_before(w, origin, direction, n, hits, block) ==
    IF hits = {} THEN [world |-> w, ret |-> FALSE]
    ELSE place_last(w, origin, direction, n,
                    { k \in 0 .. (Least(hits) - 1) :
                        SampleInVolume(Sample(origin, direction, n, k)) },
                    block)

place_block_from_ray(w, origin, direction, max_distance, block) ==
    IF block = "Air" THEN [world |-> w, ret |-> FALSE]
    ELSE IF direction = <<0, 0, 0>> THEN [world |-> w, ret |-> FALSE]
    ELSE place_before(w, origin, direction, Magnitude(direction),
                      SolidSamples(w.chunk, origin, direction,
                                   Magnitude(direction), max_distance),
                      block)

\* one turn of explode_at's innermost loop, at cell (x, y, z); acc is the
\* world so far and whether a cell was hit
explode_cell(acc, center, radius, x, y, z) ==
    IF /\ (x * 1000 + 500 - center[1]) * (x * 1000 + 500 - center[1])
          + (y * 1000 + 500 - center[2]) * (y * 1000 + 500 - center[2])
          + (z * 1000 + 500 - center[3]) * (z * 1000 + 500 - center[3])
            <= radius * radius
       /\ get_i32(acc.world.chunk, x, y, z) # "Air"
    THEN [world |-> break_block(acc.world, AsUsize(x), AsUsize(y), AsUsize(z)),
          ret |-> TRUE]
    ELSE acc

\* explode_at's loops from the k-th cell of its box on, in loop order x, y,
\* z.  (The test on acc.ret is always true: it makes TLC compute acc before
\* it goes on.)
RECURSIVE ExplodeFrom(_, _, _, _, _, _)
ExplodeFrom(acc, center, radius, lo, dims, k) ==
    IF k >= dims[1] * dims[2] * dims[3] \/ acc.ret \notin BOOLEAN THEN acc
    ELSE ExplodeFrom(explode_cell(acc, center, radius,
                                  lo[1] + (k \div (dims[2] * dims[3])),
                                  lo[2] + ((k \div dims[3]) % dims[2]),
                                  lo[3] + (k % dims[3])),
                     center, radius, lo, dims, k + 1)

exploded(done) == [world |-> spawn_particles(done.world, 45), ret |-> done.ret]

explode_box(w, center, radius, lo, hi) ==
    exploded(ExplodeFrom([world |-> w, ret |-> FALSE], center, radius, lo,
                         << hi[1] - lo[1] + 1, hi[2] - lo[2] + 1,
                            hi[3] - lo[3] + 1 >>, 0))

explode_at(w, center, radius) ==
    explode_box(w, center, radius,
                << Floor(center[1] - radius), Floor(center[2] - radius),
                   Floor(center[3] - radius) >>,
                << Ceil(center[1] + radius), Ceil(center[2] + radius),
                   Ceil(center[3] + radius) >>)

(* Spawning near the player, bullets and explosives.  A bullet's damage   *)
(* and a mob's health are whole numbers (34.0, 100.0).                     *)

\* The margin a spawn spot keeps from the faces of the volume (2.5 of 512
\* cells in the code), shrunk with the volume so that it stays below half
\* the depth, as f32::clamp requires.
SPAWN_MARGIN == 1500

\* f32::clamp of both coordinates of a preferred spot
ClampSpot(x, z) ==
    << Clamp(x, SPAWN_MARGIN, CHUNK_WIDTH * 1000 - SPAWN_MARGIN),
       Clamp(z, SPAWN_MARGIN, CHUNK_DEPTH * 1000 - SPAWN_MARGIN) >>

preferred(player) ==
    << ClampSpot(player[1] + 22000, player[3]),
       ClampSpot(player[1] - 22000, player[3]),
       ClampSpot(player[1], player[3] + 22000),
       ClampSpot(player[1], player[3] - 22000),
       ClampSpot(player[1] + 16000, player[3] + 16000) >>

\* the loop over the preferred spots, from spot k on
RECURSIVE spawn_on_first(_, _, _)
spawn_on_first(w, spots, k) ==
    IF k > Len(spots) THEN [world |-> w, ret |-> FALSE]
    ELSE IF highest_solid_below(w, spots[k][1], spots[k][2],
                                CHUNK_HEIGHT * 1000 - 1000).some
    THEN [world |-> spawn_mob_at(w, spots[k][1], spots[k][2]), ret |-> TRUE]
    ELSE spawn_on_first(w, spots, k + 1)

try_spawn_mob_near(w, player) ==
    IF Len(w.mobs) >= MAX_MOBS THEN [world |-> w, ret |-> FALSE]
    ELSE spawn_on_first(w, preferred(player), 1)

\* direction.magnitude2()
Magnitude2(d) == d[1] * d[1] + d[2] * d[2] + d[3] * d[3]

\* origin + dir * len, where dir is d / n
Along(origin, d, n, len) ==
    << origin[1] + (d[1] * len) \div n,
       origin[2] + (d[2] * len) \div n,
       origin[3] + (d[3] * len) \div n >>

push_bullet(w, origin, d, n) ==
    [w EXCEPT !.bullets = Append(@,
        [position |-> Along(origin, d, n, 500),
         velocity |-> Along(<<0, 0, 0>>, d, n, 200),
         damage |-> 34,
         max_distance |-> 100000,
         traveled |-> 0])]

SpawnBulletAlways(w, origin, direction) ==
    push_bullet(w, origin, direction, Max(1, Magnitude(direction)))

spawn_bullet(w, origin, direction) ==
    IF Magnitude2(direction) <= 0 THEN w
    ELSE push_bullet(w, origin, direction, Magnitude(direction))

\* The blast radius of a thrown explosive (30 of 512 cells in the code),
\* shrunk with the volume.
EXPLOSIVE_RADIUS == 1500

push_explosive(w, origin, d, n) ==
    [w EXCEPT !.explosives = Append(@,
        [position |-> Along(origin, d, n, 800),
         velocity |-> Along(<<0, 140, 0>>, d, n, 340),
         timer |-> 120,
         radius |-> EXPLOSIVE_RADIUS])]

spawn_explosive(w, origin, direction) ==
    IF Magnitude2(direction) <= 0 THEN w
    ELSE push_explosive(w, origin, direction, Magnitude(direction))

\* the squared distance of the mob's axis from the point of the segment
\* closest to it, compared with the squared radius.  Lengths are in 1/100
\* of a cell here.  With t = clamp(dot / len_sq, 0, 1) the closest point is
\* the start for dot <= 0 (and for a segment of squared length <= 0.0001),
\* the end for dot >= len_sq, and between them the squared distance is
\* ds - dot * dot / len_sq.
InRadius(sx, sz, ex, ez, mx, mz, r) ==
    LET seg_dx == ex - sx
        seg_dz == ez - sz
        seg_len_sq == seg_dx * seg_dx + seg_dz * seg_dz
        dot == (mx - sx) * seg_dx + (mz - sz) * seg_dz
        ds == (mx - sx) * (mx - sx) + (mz - sz) * (mz - sz)
        de == (mx - ex) * (mx - ex) + (mz - ez) * (mz - ez)
    IN  IF seg_len_sq <= 1 \/ dot <= 0 THEN ds <= r * r
        ELSE IF dot >= seg_len_sq THEN de <= r * r
        ELSE ds * seg_len_sq - dot * dot <= r * r * seg_len_sq

bullet_hits_mob(start, end, mob) ==
    /\ InRadius(start[1] \div 10, start[3] \div 10, end[1] \div 10,
                end[3] \div 10, mob.position[1] \div 10,
                mob.position[3] \div 10, mob.radius \div 10)
    /\ Max(start[2], end[2]) >= mob.position[2]
    /\ Min(start[2], end[2]) <= mob.position[2] + mob.height

\* Vec::swap_remove(i) on a sequence indexed from 1
swap_remove(list, i) ==
    IF i = Len(list) THEN SubSeq(list, 1, Len(list) - 1)
    ELSE [SubSeq(list, 1, Len(list) - 1) EXCEPT ![i] = list[Len(list)]]

\* the whole part of the square root of k, which is at most hi
ISqrt(k, hi) == CHOOSE n \in 0 .. hi : n * n <= k /\ (n + 1) * (n + 1) > k

\* velocity.y -= 0.002; position += velocity; traveled += |velocity|
fly(b, v) ==
    [b EXCEPT !.velocity = v,
              !.position = <<@[1] + v[1], @[2] + v[2], @[3] + v[3]>>,
              !.traveled = @ + ISqrt(Magnitude2(v),
                                     Abs(v[1]) + Abs(v[2]) + Abs(v[3]))]

hit_block(w, p) ==
    /\ InVolume(Floor(p[1]), Floor(p[2]), Floor(p[3]))
    /\ get_i32(w.chunk, Floor(p[1]), Floor(p[2]), Floor(p[3])) # "Air"

\* the first mob of the list the segment hits, 0 when it hits none
first_mob_hit(mob_list, start, end) ==
    IF \E m \in DOMAIN mob_list : bullet_hits_mob(start, end, mob_list[m])
    THEN Least({ m \in DOMAIN mob_list :
                   bullet_hits_mob(start, end, mob_list[m]) })
    ELSE 0

\* acc: the world so far, world_changed, for each bullet of the list its
\* place in the list before the call (ids), the hits so far, and the
\* entries the loop has visited so far, by their place before the call
drop_bullet(acc, i) ==
    [acc EXCEPT !.world.bullets = swap_remove(@, i),
                !.ids = swap_remove(@, i)]

DamageKeepsBullet(acc, i, b, m) ==
    [acc EXCEPT !.world.bullets[i] = b,
                !.world.mobs[m].health = @ - b.damage,
                !.world.particles = @ + 10,
                !.ret = TRUE,
                !.hits = Append(@, [bullet |-> acc.ids[i], mob |-> m])]

damage_mob(acc, i, b, m) ==
    drop_bullet(
        [acc EXCEPT !.world.mobs[m].health = @ - b.damage,
                    !.world.particles =
                        @ + 10 + (IF acc.world.mobs[m].health - b.damage <= 0
                                  THEN 26 ELSE 0),
                    !.ret = TRUE,
                    !.hits = Append(@, [bullet |-> acc.ids[i], mob |-> m])],
        i)

BulletNeverExpires(acc, i, previous, b, m) ==
    IF hit_block(acc.world, b.position) THEN drop_bullet(acc, i)
    ELSE IF m # 0 THEN damage_mob(acc, i, b, m)
    ELSE [acc EXCEPT !.world.bullets[i] = b]

\* the loop body after the bullet moved from `previous` and became b
bullet_moved(acc, i, previous, b, m) ==
    IF hit_block(acc.world, b.position) THEN drop_bullet(acc, i)
    ELSE IF m # 0 THEN damage_mob(acc, i, b, m)
    ELSE IF b.traveled >= b.max_distance THEN drop_bullet(acc, i)
    ELSE [acc EXCEPT !.world.bullets[i] = b]

update_bullet(acc, i, b) ==
    bullet_moved(acc, i, acc.world.bullets[i].position, b,
                 first_mob_hit(acc.world.mobs,
                               acc.world.bullets[i].position, b.position))

\* the loop reaches slot i: the entry in it is noted as visited
visit(acc, i) == [acc EXCEPT !.visits = Append(@, acc.ids[i])]

\* for i in (0..self.bullets.len()).rev()
\* for i in 0..len, the length taken once: the entry swapped into a freed
\* slot is passed over, and a slot beyond the shrunk list is visited as 0
RECURSIVE UpdateForward(_, _)
UpdateForward(acc, i) ==
    IF i < 1 \/ acc.ret \notin BOOLEAN THEN acc
    ELSE IF Len(acc.visits) + 1 > Len(acc.world.bullets)
    THEN UpdateForward([acc EXCEPT !.visits = Append(@, 0)], i - 1)
    ELSE UpdateForward(
             update_bullet(visit(acc, Len(acc.visits) + 1),
                 Len(acc.visits) + 1,
                 fly(acc.world.bullets[Len(acc.visits) + 1],
                     << acc.world.bullets[Len(acc.visits) + 1].velocity[1],
                        acc.world.bullets[Len(acc.visits) + 1].velocity[2] - 2,
                        acc.world.bullets[Len(acc.visits) + 1].velocity[3] >>)),
             i - 1)

RECURSIVE update_from(_, _)
update_from(acc, i) ==
    IF i < 1 \/ acc.ret \notin BOOLEAN THEN acc
    ELSE update_from(
             update_bullet(visit(acc, i), i,
                 fly(acc.world.bullets[i],
                     << acc.world.bullets[i].velocity[1],
                        acc.world.bullets[i].velocity[2] - 2,
                        acc.world.bullets[i].velocity[3] >>)),
             i - 1)

RetainKeepsDead(acc) == acc

\* self.mobs.retain(|mob| mob.health > 0.0) and the change it reports
retain_alive(acc) ==
    [acc EXCEPT !.world.mobs = SelectSeq(@, LAMBDA mob : mob.health > 0),
                !.ret = @ \/ \E m \in DOMAIN acc.world.mobs :
                                  acc.world.mobs[m].health <= 0]

\* World::update_bullets: [world, ret, ids, hits, visits]
update_bullets(w) ==
    retain_alive(
        update_from([world |-> w, ret |-> FALSE,
                     ids |-> [k \in DOMAIN w.bullets |-> k], hits |-> << >>,
                     visits |-> << >>],
                    Len(w.bullets)))

(* update_explosives.  acc: the world so far, world_changed, for each      *)
(* explosive of the list its place in the list before the call (ids), the *)
(* entries visited so far and the explode_at calls made so far (blasts).   *)

\* velocity.y -= 0.004; position += velocity; timer -= 1.0
drift(e, v) ==
    [e EXCEPT !.velocity = v,
              !.position = <<@[1] + v[1], @[2] + v[2], @[3] + v[3]>>,
              !.timer = @ - 1]

\* if self.explode_at(pos, radius) { world_changed = true }
blast(acc, r) == [acc EXCEPT !.world = r.world, !.ret = @ \/ r.ret]

\* swap_remove(i), then explode_at at the explosive's position
detonate(acc, i, e) ==
    blast([acc EXCEPT !.world.explosives = swap_remove(@, i),
                      !.ids = swap_remove(@, i),
                      !.blasts = Append(@, [explosive |-> acc.ids[i],
                                            center |-> e.position,
                                            radius |-> e.radius])],
          explode_at([acc.world EXCEPT !.explosives = swap_remove(@, i)],
                     e.position, e.radius))

ExplodesOnTimerOnly(acc, i, e) ==
    IF e.timer <= 0 THEN detonate(acc, i, e)
    ELSE [acc EXCEPT !.world.explosives[i] = e]

\* the loop body after the explosive in slot i moved and became e
explosive_moved(acc, i, e) ==
    IF \/ get_i32(acc.world.chunk, Floor(e.position[1]), Floor(e.position[2]),
                  Floor(e.position[3])) # "Air"
       \/ e.timer <= 0
    THEN detonate(acc, i, e)
    ELSE [acc EXCEPT !.world.explosives[i] = e]

\* for i in (0..self.explosives.len()).rev()
RECURSIVE explosives_from(_, _)
explosives_from(acc, i) ==
    IF i < 1 \/ acc.ret \notin BOOLEAN THEN acc
    ELSE explosives_from(
             explosive_moved(visit(acc, i), i,
                 drift(acc.world.explosives[i],
                       << acc.world.explosives[i].velocity[1],
                          acc.world.explosives[i].velocity[2] - 4,
                          acc.world.explosives[i].velocity[3] >>)),
             i - 1)

\* World::update_explosives: [world, ret, ids, visits, blasts]
update_explosives(w) ==
    explosives_from([world |-> w, ret |-> FALSE,
                     ids |-> [k \in DOMAIN w.explosives |-> k],
                     visits |-> << >>, blasts |-> << >>],
                    Len(w.explosives))

(* update_mobs.  acc: the world so far, world_changed, player_damage, the *)
(* axis moves accepted so far and the mobs that attacked so far.           *)

\* the cells mob_collides reads for a mob at (x, y, z)
mob_collides(chunk, x, y, z, radius, height) ==
    \E bx \in Floor(x - radius) .. Floor(x + radius),
       by \in Floor(y) .. Ceil(y + height),
       bz \in Floor(z - radius) .. Floor(z + radius) :
        get_i32(chunk, bx, by, bz) # "Air"

CollidesWithNone(x, z, radius, others) == FALSE

mob_collides_with_others(x, z, radius, others) ==
    \E n \in DOMAIN others :
        (x - others[n].position[1]) * (x - others[n].position[1])
        + (z - others[n].position[3]) * (z - others[n].position[3])
            < (radius + others[n].radius) * (radius + others[n].radius)

\* !mob_collides && !mob_collides_with_others(head) && !..(rest) for mob i
\* at (x, its y, z)
can_move(w, i, x, z) ==
    /\ ~ mob_collides(w.chunk, x, w.mobs[i].position[2], z, w.mobs[i].radius,
                      w.mobs[i].height)
    /\ ~ mob_collides_with_others(x, z, w.mobs[i].radius,
                                  SubSeq(w.mobs, 1, i - 1))
    /\ ~ mob_collides_with_others(x, z, w.mobs[i].radius,
                                  SubSeq(w.mobs, i + 1, Len(w.mobs)))

\* one coordinate of dir * speed, where dir is toward_player / distance
Stride(d, speed, distance) ==
    IF d >= 0 THEN (d * speed) \div distance
    ELSE -(((-d) * speed) \div distance)

\* if can_move { position = proposed; moved = true }, on one axis
step_to(acc, i, axis, x, z) ==
    IF can_move(acc.world, i, x, z)
    THEN [acc EXCEPT !.world.mobs[i].position = <<x, @[2], z>>,
                     !.ret = TRUE,
                     !.moves = Append(@, [mob |-> i, axis |-> axis,
                                          position |-> <<x, acc.world.mobs[i].position[2], z>>])]
    ELSE acc

\* the jump of a grounded mob neither of whose moves was accepted
jump(acc, i, blocked) ==
    IF /\ acc.world.mobs[i].grounded
       /\ blocked
       /\ acc.world.mobs[i].jump_cooldown <= 0
    THEN [acc EXCEPT !.world.mobs[i].velocity_y = 60,
                     !.world.mobs[i].grounded = FALSE,
                     !.world.mobs[i].jump_cooldown = 20,
                     !.ret = TRUE]
    ELSE acc

\* the z move, proposed from the position after the x move
walk_z(acc, i, stride_z, x_blocked) ==
    jump(step_to(acc, i, "z", acc.world.mobs[i].position[1],
                 acc.world.mobs[i].position[3] + stride_z),
         i,
         /\ x_blocked
         /\ ~ can_move(acc.world, i, acc.world.mobs[i].position[1],
                       acc.world.mobs[i].position[3] + stride_z))

\* the x move
walk_x(acc, i, stride_x, stride_z) ==
    walk_z(step_to(acc, i, "x", acc.world.mobs[i].position[1] + stride_x,
                   acc.world.mobs[i].position[3]),
           i, stride_z,
           ~ can_move(acc.world, i, acc.world.mobs[i].position[1] + stride_x,
                      acc.world.mobs[i].position[3]))

\* if distance > 0.01 { ... }: speed 0.04 beyond 1.4, else 0.02
walk(acc, i, dx, dz, distance) ==
    IF distance > 10
    THEN walk_x(acc, i,
                Stride(dx, IF distance > 1400 THEN 40 ELSE 20, distance),
                Stride(dz, IF distance > 1400 THEN 40 ELSE 20, distance))
    ELSE acc

\* the mob after the vertical move: m with velocity_y already lowered
landed(chunk, m, ground) ==
    IF m.velocity_y < 0
    THEN [m EXCEPT !.position[2] = IF ground.some THEN ground.v ELSE @,
                   !.grounded = TRUE,
                   !.velocity_y = 0]
    ELSE [m EXCEPT !.velocity_y = 0]

fall(chunk, m) ==
    IF ~ mob_collides(chunk, m.position[1], m.position[2] + m.velocity_y,
                      m.position[3], m.radius, m.height)
    THEN [m EXCEPT !.position[2] = @ + m.velocity_y, !.grounded = FALSE]
    ELSE landed(chunk, m,
                highest_solid_below_chunk(chunk, m.position[1], m.position[3],
                                          m.position[2] + 500))

\* both cooldowns lose 1 while they are above 0
cool(m) ==
    [m EXCEPT !.jump_cooldown = IF @ > 0 THEN @ - 1 ELSE @,
              !.attack_cooldown = IF @ > 0 THEN @ - 1 ELSE @]

\* the attack test: within radius + 0.35 horizontally, within the mob's
\* height vertically
touches(m, player) ==
    /\ (player[1] - m.position[1]) * (player[1] - m.position[1])
       + (player[3] - m.position[3]) * (player[3] - m.position[3])
           <= (m.radius + 350) * (m.radius + 350)
    /\ Abs(player[2] - m.position[2]) <= m.height

AttacksWhileCooling(acc, i, player) ==
    IF touches(acc.world.mobs[i], player)
    THEN [acc EXCEPT !.damage = @ + 8,
                     !.world.mobs[i].attack_cooldown = 45,
                     !.attacks = Append(@, i)]
    ELSE acc

attack(acc, i, player) ==
    IF touches(acc.world.mobs[i], player)
       /\ acc.world.mobs[i].attack_cooldown <= 0
    THEN [acc EXCEPT !.damage = @ + 8,
                     !.world.mobs[i].attack_cooldown = 45,
                     !.attacks = Append(@, i)]
    ELSE acc

\* the part of the loop body after the horizontal moves
settle(acc, i, player) ==
    attack([acc EXCEPT !.world.mobs[i] =
                cool(fall(acc.world.chunk,
                          [@ EXCEPT !.velocity_y = @ - 3]))],
           i, player)

\* for i in 0..self.mobs.len()
RECURSIVE mobs_from(_, _, _)
mobs_from(acc, i, player) ==
    IF i > Len(acc.world.mobs) \/ acc.ret \notin BOOLEAN THEN acc
    ELSE mobs_from(
             settle(walk(acc, i,
                         player[1] - acc.world.mobs[i].position[1],
                         player[3] - acc.world.mobs[i].position[3],
                         ISqrt(Magnitude2(
                                   << player[1] - acc.world.mobs[i].position[1],
                                      0,
                                      player[3] - acc.world.mobs[i].position[3] >>),
                               20000)),
                    i, player),
             i + 1, player)

\* spawn_timer += 1; every 120th call try_spawn_mob_near
spawn_due(w, player) ==
    IF w.spawn_timer + 1 >= 120
    THEN try_spawn_mob_near([w EXCEPT !.spawn_timer = 0], player)
    ELSE [world |-> [w EXCEPT !.spawn_timer = @ + 1], ret |-> FALSE]

\* the loop of update_mobs, entered with what the spawn left
mobs_loop(spawned, player) ==
    mobs_from([world |-> spawned.world, ret |-> spawned.ret, damage |-> 0,
               moves |-> << >>, attacks |-> << >>],
              1, player)

\* World::update_mobs: [world, ret, damage, moves, attacks]
update_mobs(w, player) == mobs_loop(spawn_due(w, player), player)

\* World::new: a generated chunk and the three first mobs (at 160.5/140.5,
\* 210.5/200.5 and 280.5/260.5 of 512 in the code)
generated_world ==
    [chunk |-> generate_at(new_chunk, new_chunk.origin_x, new_chunk.origin_z),
     mobs |-> << >>,
     bullets |-> << >>,
     explosives |-> << >>,
     particles |-> 0,
     spawn_timer |-> 0]

new_world ==
    spawn_mob_at(spawn_mob_at(spawn_mob_at(generated_world, 1500, 1500),
                              2500, 2500),
                 3500, 3500)

----------------------------------------------------------------------------
(* The state machine *)

TheChunk ==
    [blocks |-> blocks, dirty_regions |-> dirty_regions,
     origin_x |-> origin_x, origin_z |-> origin_z]

TheWorld ==
    [chunk |-> TheChunk, mobs |-> mobs, bullets |-> bullets,
     explosives |-> explosives, particles |-> particles,
     spawn_timer |-> spawn_timer]

PreChunk ==
    [blocks |-> preBlocks, dirty_regions |-> preDirty,
     origin_x |-> origin_x, origin_z |-> origin_z]

\* Region coordinates of a region index, and of the region holding a cell
RegionX(r) == r % RegionsX
RegionZ(r) == (r \div RegionsX) % RegionsZ
RegionY(r) == r \div (RegionsX * RegionsZ)

\* Regions r and the region of cell i touch: equal or one of the 26 around
Touches(r, i) ==
    /\ Abs(RegionX(r) - (CellX(i) \div CHUNK_REGION_SIZE)) <= 1
    /\ Abs(RegionY(r) - (CellY(i) \div CHUNK_REGION_SIZE)) <= 1
    /\ Abs(RegionZ(r) - (CellZ(i) \div CHUNK_REGION_SIZE)) <= 1

\* The regions a change of the block array from b to b2 makes due
Due(b, b2) ==
    LET changed == { i \in Cells : b[i] # b2[i] }
    IN  { r \in RegionIds : \E i \in changed : Touches(r, i) }

\* Every cell the structure pass can write when the chunk's origin is
\* (ox, oz): the houses' boxes and doors, the target's plane, and around a
\* plant site the whole height of the canopy's or the cactus's columns
StructureCells(ox, oz) ==
    { i \in Cells :
        LET x == CellX(i)
            y == CellY(i)
            z == CellZ(i)
        IN  \/ \E n \in DOMAIN Houses :
                 LET h == Houses[n]
                 IN  \/ /\ x >= h[1] /\ x < h[1] + h[4]
                        /\ y >= h[2] /\ y < h[2] + h[5]
                        /\ z >= h[3] /\ z < h[3] + h[6]
                     \/ /\ x = h[1] + (h[4] \div 2)
                        /\ y \in {h[2] + 1, h[2] + 2}
                        /\ z = h[3]
            \/ /\ Abs(x - TargetCenter[1]) <= 2
               /\ Abs(y - TargetCenter[2]) <= 2
               /\ z = Min(TargetCenter[3], CHUNK_DEPTH - 1)
            \/ \E n \in DOMAIN PlantSites :
                 LET p == PlantSites[n]
                     biome == biome_at(ox + p[1], oz + p[2])
                 IN  \/ biome = "Forest" /\ Abs(x - p[1]) <= 2 /\ Abs(z - p[2]) <= 2
                     \/ biome = "Desert" /\ x = p[1] /\ z = p[2] }

Apply(op, args, w, r, mk, st) ==
    /\ blocks' = w.chunk.blocks
    /\ dirty_regions' = w.chunk.dirty_regions
    /\ origin_x' = w.chunk.origin_x
    /\ origin_z' = w.chunk.origin_z
    /\ mobs' = w.mobs
    /\ bullets' = w.bullets
    /\ explosives' = w.explosives
    /\ pre' = [mobs |-> mobs, bullets |-> bullets, explosives |-> explosives,
               particles |-> particles, spawn_timer |-> spawn_timer]
    /\ particles' = w.particles
    /\ spawn_timer' = w.spawn_timer
    /\ last' = [op |-> op, args |-> args]
    /\ ret' = r
    /\ preBlocks' = blocks
    /\ preDirty' = dirty_regions
    /\ preMobs' = Len(mobs)
    /\ preMarked' = marked
    /\ marked' = mk
    /\ stamped' = st
    /\ steps' = steps + 1

\* an operation other than a step of generate_at's worker pool
Record(op, args, w, r, mk, st) ==
    /\ Apply(op, args, w, r, mk, st)
    /\ UNCHANGED <<gen, hitLog>>

\* a chunk operation that yields chunk c, a world operation that yields
\* [world, ret]
ChunkOp(op, args, c) ==
    Record(op, args, [TheWorld EXCEPT !.chunk = c], FALSE,
           marked \cup Due(blocks, c.blocks), stamped)

WorldOp(op, args, r) ==
    Record(op, args, r.world, r.ret,
           marked \cup Due(blocks, r.world.chunk.blocks), stamped)

\* no generate_at is running
Idle ==
    [active |-> FALSE, worker_count |-> 0, next_x |-> 0, done |-> {},
     produced |-> << >>]

Constructed(w) ==
    /\ blocks = w.chunk.blocks
    /\ dirty_regions = w.chunk.dirty_regions
    /\ origin_x = w.chunk.origin_x
    /\ origin_z = w.chunk.origin_z
    /\ mobs = w.mobs
    /\ bullets = w.bullets
    /\ explosives = w.explosives
    /\ pre = [mobs |-> << >>, bullets |-> << >>, explosives |-> << >>,
              particles |-> 0, spawn_timer |-> 0]
    /\ hitLog = [hits |-> << >>, kept |-> << >>, visits |-> << >>,
                 blasts |-> << >>, moves |-> << >>, attacks |-> << >>]
    /\ particles = w.particles
    /\ spawn_timer = w.spawn_timer
    /\ last = [op |-> "new", args |-> << >>]
    /\ ret = FALSE
    /\ preBlocks = new_chunk.blocks
    /\ preDirty = new_chunk.dirty_regions
    /\ preMobs = 0
    /\ preMarked = {}
    /\ stamped = StructureCells(w.chunk.origin_x, w.chunk.origin_z)
    /\ marked = RegionIds
    /\ steps = 0
    /\ gen = Idle

Init == Constructed(new_world)

WrittenBlocks == {"Air", "Planks"}

\* Chunk::set_i32 at a world coordinate, one cell beyond the volume included
SetI32 ==
    /\ steps < MaxSteps
    /\ \E x \in (origin_x - 1) .. (origin_x + CHUNK_WIDTH),
          y \in -1 .. CHUNK_HEIGHT,
          z \in (origin_z - 1) .. (origin_z + CHUNK_DEPTH),
          b \in WrittenBlocks :
         ChunkOp("set_i32", <<x, y, z, b>>, set_i32(TheChunk, x, y, z, b))

Drained(t) ==
    Record("take_dirty_regions", << >>, [TheWorld EXCEPT !.chunk = t.chunk],
           t.out, {}, stamped)

TakeDirtyRegions ==
    /\ steps < MaxSteps
    /\ Drained(take_dirty_regions(TheChunk))

GenerateAt ==
    /\ steps < MaxSteps
    /\ \E ox \in {-(CHUNK_WIDTH \div 2), 0}, oz \in {-(CHUNK_DEPTH \div 2), 0} :
         Record("generate_at", <<ox, oz>>,
                [TheWorld EXCEPT !.chunk = generate_at(TheChunk, ox, oz)],
                FALSE, RegionIds, StructureCells(ox, oz))

Next == SetI32 \/ TakeDirtyRegions \/ GenerateAt

Spec == Init /\ [][Next]_vars

----------------------------------------------------------------------------
(* World operations.  Positions are fixed-point; a ray starts at the      *)
(* centre of a cell inside, beside or above the volume.                    *)

RayOrigins ==
    { <<x, y, z>> : x \in {500, CHUNK_WIDTH * 1000 - 1500},
                    y \in {CHUNK_HEIGHT * 1000 - 500, CHUNK_HEIGHT * 1000 + 500},
                    z \in {500, CHUNK_DEPTH * 1000 - 1500} }

\* the zero vector, the axes, and two slanted directions of length 5
Directions ==
    { <<0, 0, 0>>, <<1, 0, 0>>, <<-1, 0, 0>>, <<0, -1, 0>>, <<0, 0, 1>>,
      <<3, 0, 4>>, <<0, -4, 3>> }

RayLengths == {400, 3000}

BreakBlockFromRay ==
    /\ steps < MaxSteps
    /\ \E origin \in RayOrigins, direction \in Directions, max \in RayLengths :
         WorldOp("break_block_from_ray", <<origin, direction, max>>,
                 break_block_from_ray(TheWorld, origin, direction, max))

PlaceBlockFromRay ==
    /\ steps < MaxSteps
    /\ \E origin \in RayOrigins, direction \in Directions, max \in RayLengths,
          b \in WrittenBlocks :
         WorldOp("place_block_from_ray", <<origin, direction, max, b>>,
                 place_block_from_ray(TheWorld, origin, direction, max, b))

\* explode_at, as update_explosives calls it where an explosive has come to
\* rest, in, beside and far from the volume
BlastCenters ==
    { <<x, y, z>> : x \in {500, 3500, (CHUNK_WIDTH + 2) * 1000 + 500},
                    y \in {500, CHUNK_HEIGHT * 500},
                    z \in {-1500, 500, 2500} }

BlastRadii == {1000, 1500}

ExplodeAt ==
    /\ steps < MaxSteps
    /\ \E center \in BlastCenters, radius \in BlastRadii :
         WorldOp("explode_at", <<center, radius>>,
                 explode_at(TheWorld, center, radius))

\* spawn_mob_at at the centre of a column, the columns around the volume
\* included
SpawnMobAt ==
    /\ steps < MaxSteps
    /\ \E xi \in {-1, 0, 1, CHUNK_WIDTH - 1, CHUNK_WIDTH},
          zi \in {-1, 0, CHUNK_DEPTH - 1, CHUNK_DEPTH} :
         Record("spawn_mob_at", <<xi * 1000 + 500, zi * 1000 + 500>>,
                spawn_mob_at(TheWorld, xi * 1000 + 500, zi * 1000 + 500),
                FALSE, marked, stamped)

NextWorld ==
    \/ BreakBlockFromRay
    \/ PlaceBlockFromRay
    \/ ExplodeAt
    \/ SpawnMobAt
    \/ TakeDirtyRegions

SpecWorld == Init /\ [][NextWorld]_vars

----------------------------------------------------------------------------
(* Writes and drains: longer runs over a few cells, at the corner of the  *)
(* volume, on both sides of a region boundary, and beyond the volume      *)

MaxDrainSteps == 4

ProbeCells ==
    { <<0, 0, 0>>,
      <<CHUNK_REGION_SIZE - 1, 0, 0>>,
      <<CHUNK_REGION_SIZE, 0, 0>>,
      <<CHUNK_WIDTH - 1, CHUNK_HEIGHT - 1, CHUNK_DEPTH - 1>>,
      <<CHUNK_WIDTH, 0, 0>> }

SetProbe ==
    /\ steps < MaxDrainSteps
    /\ \E p \in ProbeCells, b \in WrittenBlocks :
         ChunkOp("set_i32", <<origin_x + p[1], p[2], origin_z + p[3], b>>,
                 set_i32(TheChunk, origin_x + p[1], p[2], origin_z + p[3], b))

Drain ==
    /\ steps < MaxDrainSteps
    /\ Drained(take_dirty_regions(TheChunk))

Regenerate ==
    /\ steps < MaxDrainSteps
    /\ Record("generate_at", <<0, 0>>,
              [TheWorld EXCEPT !.chunk = generate_at(TheChunk, 0, 0)],
              FALSE, RegionIds, StructureCells(0, 0))

NextDrain == SetProbe \/ Drain \/ Regenerate

SpecDrain == Init /\ [][NextDrain]_vars

----------------------------------------------------------------------------
(* Direct edits: Chunk::set, World::break_block and World::set_block with *)
(* usize coordinates at the first and last cell of each axis, one past    *)
(* the last, and where a cast of -1 lands                                  *)

EdgeCoords(n) == {0, n - 1, n, AsUsize(-1)}

\* a world operation that returns nothing and yields world w
Edited(op, args, w) ==
    Record(op, args, w, FALSE, marked \cup Due(blocks, w.chunk.blocks), stamped)

Set ==
    /\ steps < MaxSteps
    /\ \E x \in EdgeCoords(CHUNK_WIDTH), y \in EdgeCoords(CHUNK_HEIGHT),
          z \in EdgeCoords(CHUNK_DEPTH), b \in WrittenBlocks :
         ChunkOp("set", <<x, y, z, b>>, set(TheChunk, x, y, z, b))

BreakBlock ==
    /\ steps < MaxSteps
    /\ \E x \in EdgeCoords(CHUNK_WIDTH), y \in EdgeCoords(CHUNK_HEIGHT),
          z \in EdgeCoords(CHUNK_DEPTH) :
         Edited("break_block", <<x, y, z>>, break_block(TheWorld, x, y, z))

SetBlock ==
    /\ steps < MaxSteps
    /\ \E x \in EdgeCoords(CHUNK_WIDTH), y \in EdgeCoords(CHUNK_HEIGHT),
          z \in EdgeCoords(CHUNK_DEPTH), b \in WrittenBlocks :
         Edited("set_block", <<x, y, z, b>>, set_block(TheWorld, x, y, z, b))

NextEdit == Set \/ SetI32 \/ BreakBlock \/ SetBlock \/ TakeDirtyRegions

SpecEdit == Init /\ [][NextEdit]_vars

----------------------------------------------------------------------------
(* Combat: bullets fired at the second mob of World::new from beside it,  *)
(* downwards and with no direction, a mob spawned on that mob's column,   *)
(* and update_bullets                                                      *)

MaxCombatSteps == 5

BulletOrigins == { <<1800, 5500, 2500>>, <<500, 4400, 500>> }

BulletDirections == { <<0, 0, 0>>, <<1, 0, 0>>, <<0, -1, 0>> }

SpawnBullet ==
    /\ steps < MaxCombatSteps
    /\ \E origin \in BulletOrigins, direction \in BulletDirections :
         Record("spawn_bullet", <<origin, direction>>,
                spawn_bullet(TheWorld, origin, direction), FALSE, marked,
                stamped)

\* an update_bullets call that yields r
Updated(r) ==
    /\ Apply("update_bullets", << >>, r.world, r.ret, marked, stamped)
    /\ hitLog' = [hits |-> r.hits, kept |-> r.ids, visits |-> r.visits,
                  blasts |-> << >>, moves |-> << >>, attacks |-> << >>]
    /\ UNCHANGED gen

UpdateBullets ==
    /\ steps < MaxCombatSteps
    /\ Updated(update_bullets(TheWorld))

\* try_spawn_mob_near, as update_mobs calls it every 120th tick
Reinforce ==
    /\ steps < MaxCombatSteps
    /\ WorldOp("try_spawn_mob_near", <<-19500, 0, 2500>>,
               try_spawn_mob_near(TheWorld, <<-19500, 0, 2500>>))

NextCombat == SpawnBullet \/ UpdateBullets \/ Reinforce

SpecCombat == Init /\ [][NextCombat]_vars

----------------------------------------------------------------------------
(* Flight: up to MaxSteps bullets fired from inside the ground west of    *)
(* the cells 0 .. CHUNK_WIDTH - 1 and from above the volume beside the    *)
(* second mob, sideways, down and straight up, then update_bullets tick    *)
(* after tick until every bullet is gone                                   *)

MaxFlightTicks == 450

FlightOrigins == { <<-700, 500, 500>>, <<1800, 5500, 2500>> }

FlightDirections == { <<-1, 0, 0>>, <<1, 0, 0>>, <<0, -1, 0>>, <<0, 1, 0>> }

Shoot ==
    /\ steps < MaxSteps
    /\ \E origin \in FlightOrigins, direction \in FlightDirections :
         Record("spawn_bullet", <<origin, direction>>,
                spawn_bullet(TheWorld, origin, direction), FALSE, marked,
                stamped)

Tick ==
    /\ steps < MaxFlightTicks
    /\ bullets # << >>
    /\ Updated(update_bullets(TheWorld))

NextFlight == Shoot \/ Tick

SpecFlight == Init /\ [][NextFlight]_vars

\* what a Tick step does to steps and last.  Of the steps of NextFlight
\* only Tick's are such steps, and one is possible exactly when Tick is.
TickTaken ==
    /\ steps < MaxFlightTicks
    /\ bullets # << >>
    /\ steps' = steps + 1
    /\ last' = [op |-> "update_bullets", args |-> << >>]

\* the game loop calls update_bullets once per tick for as long as it runs
SpecFlightFair ==
    Init /\ [][NextFlight]_vars /\ WF_<<steps, last>>(TickTaken)

----------------------------------------------------------------------------
(* Blasts: up to MaxSteps explosives thrown from above and from below the *)
(* volume, sideways, down and straight up, then update_explosives tick    *)
(* after tick until every explosive has gone off                          *)

MaxBlastTicks == 130

BlastOrigins == { <<1800, 5500, 2500>>, <<500, -3500, 500>> }

BlastDirections == { <<1, 0, 0>>, <<0, -1, 0>>, <<0, 1, 0>>, <<0, 0, 0>> }

Throw ==
    /\ steps < MaxSteps
    /\ \E origin \in BlastOrigins, direction \in BlastDirections :
         Record("spawn_explosive", <<origin, direction>>,
                spawn_explosive(TheWorld, origin, direction), FALSE, marked,
                stamped)

\* an update_explosives call that yields r
Detonated(r) ==
    /\ Apply("update_explosives", << >>, r.world, r.ret,
             marked \cup Due(blocks, r.world.chunk.blocks), stamped)
    /\ hitLog' = [hits |-> << >>, kept |-> r.ids, visits |-> r.visits,
                  blasts |-> r.blasts, moves |-> << >>, attacks |-> << >>]
    /\ UNCHANGED gen

Fuse ==
    /\ steps < MaxBlastTicks
    /\ explosives # << >>
    /\ Detonated(update_explosives(TheWorld))

NextBlast == Throw \/ Fuse

SpecBlast == Init /\ [][NextBlast]_vars

\* what a Fuse step does to steps and last.  Of the steps of NextBlast only
\* Fuse's are such steps, and one is possible exactly when Fuse is.
FuseTaken ==
    /\ steps < MaxBlastTicks
    /\ explosives # << >>
    /\ steps' = steps + 1
    /\ last' = [op |-> "update_explosives", args |-> << >>]

\* the game loop calls update_explosives once per tick for as long as it
\* runs
SpecBlastFair ==
    Init /\ [][NextBlast]_vars /\ WF_<<steps, last>>(FuseTaken)

----------------------------------------------------------------------------
(* Volleys: up to MaxVolley bullets and explosives, fired from inside the *)
(* ground (they go in their first tick) and from the air above it (they   *)
(* stay), then a few update_bullets and update_explosives calls, so that   *)
(* entries leave the front, the middle and the back of a list of three    *)

MaxVolley == 3

MaxVolleySteps == 5

VolleyOrigins == { <<1800, 500, 2500>>, <<1800, 5500, 2500>> }

VolleyDirections == { <<1, 0, 0>>, <<0, 1, 0>> }

Volley ==
    /\ steps < MaxVolley
    /\ \E origin \in VolleyOrigins, direction \in VolleyDirections :
         \/ Record("spawn_bullet", <<origin, direction>>,
                   spawn_bullet(TheWorld, origin, direction), FALSE, marked,
                   stamped)
         \/ Record("spawn_explosive", <<origin, direction>>,
                   spawn_explosive(TheWorld, origin, direction), FALSE,
                   marked, stamped)

VolleyTick ==
    /\ steps < MaxVolleySteps
    /\ bullets # << >>
    /\ Updated(update_bullets(TheWorld))

VolleyFuse ==
    /\ steps < MaxVolleySteps
    /\ explosives # << >>
    /\ Detonated(update_explosives(TheWorld))

NextVolley == Volley \/ VolleyTick \/ VolleyFuse

SpecVolley == Init /\ [][NextVolley]_vars

----------------------------------------------------------------------------
(* terrain_block_at as a function: one application to a column near the   *)
(* volume or far from it, of any biome and surface height, at the model's *)
(* sea level and at the code's.  The heights stay below 14, where         *)
(* stone_with_ores decides without the hash of the column.                *)

TerrainXs == {-1000000000, -1, 0, 5, 1000000000, I32_MAX}

TerrainZs == {0, 1, I32_MAX}

TerrainHeights == {0, 1, 2, 3, 4, 9, 10, 13}

SeaLevels == {SEA_LEVEL, 30}

TerrainBlockAt ==
    /\ steps = 0
    /\ \E wx \in TerrainXs, y \in TerrainHeights, wz \in TerrainZs,
          biome \in Biome, h \in TerrainHeights, sea_level \in SeaLevels,
          overflow_checks \in BOOLEAN :
         Record("terrain_block_at",
                <<wx, y, wz, biome, h, sea_level, overflow_checks>>, TheWorld,
                terrain_block_at_call(wx, y, wz, biome, h, sea_level,
                                      overflow_checks),
                marked, stamped)

SpecTerrain == Init /\ [][TerrainBlockAt]_vars

----------------------------------------------------------------------------
(* Mobs: update_mobs tick after tick, past the 120th call, for a player   *)
(* who stands on a mob's column, beside the mobs or away from them, and   *)
(* who moves to another of these spots every PlayerTurn calls              *)

MaxMobTicks == 125

PlayerTurn == 50

PlayerSpots == { <<2500, 4000, 2500>>, <<600, 4000, 1500>>, <<-2500, 3500, 500>> }

\* an update_mobs call that yields r
Moved(player, r) ==
    /\ Apply("update_mobs", <<player>>, r.world,
             [world_changed |-> r.ret, player_damage |-> r.damage], marked,
             stamped)
    /\ hitLog' = [hits |-> << >>, kept |-> << >>, visits |-> << >>,
                  blasts |-> << >>, moves |-> r.moves, attacks |-> r.attacks]
    /\ UNCHANGED gen

UpdateMobs ==
    /\ steps < MaxMobTicks
    /\ \E player \in (IF last.op = "update_mobs" /\ steps % PlayerTurn # 0
                       THEN {last.args[1]} ELSE PlayerSpots) :
         Moved(player, update_mobs(TheWorld, player))

SpecMobs == Init /\ [][UpdateMobs]_vars

----------------------------------------------------------------------------
(* Spawning up to the cap: try_spawn_mob_near for a player in, beside and *)
(* far from the volume, and spawn_mob_at on a column of the volume and on *)
(* one outside it, until the list is full and beyond                       *)

MaxSpawnSteps == 19

Players == { <<0, 0, 0>>, <<3000, 2000, -5000>>, <<40000, 0, 1000>> }

TrySpawnMobNear ==
    /\ steps < MaxSpawnSteps
    /\ \E player \in Players :
         WorldOp("try_spawn_mob_near", player,
                 try_spawn_mob_near(TheWorld, player))

SpawnMore ==
    /\ steps < MaxSpawnSteps
    /\ \E x \in {-500, CHUNK_WIDTH * 1000 - SPAWN_MARGIN} :
         Record("spawn_mob_at", <<x, SPAWN_MARGIN>>,
                spawn_mob_at(TheWorld, x, SPAWN_MARGIN), FALSE, marked,
                stamped)

NextSpawn == TrySpawnMobNear \/ SpawnMore

SpecSpawn == Init /\ [][NextSpawn]_vars

----------------------------------------------------------------------------
(* Aiming: the two ray operations, spawn_bullet and spawn_explosive from  *)
(* the same origins and in the same directions, the zero vector included  *)

FireBullet ==
    /\ steps < MaxSteps
    /\ \E origin \in RayOrigins, direction \in Directions :
         Record("spawn_bullet", <<origin, direction>>,
                spawn_bullet(TheWorld, origin, direction), FALSE, marked,
                stamped)

ThrowExplosive ==
    /\ steps < MaxSteps
    /\ \E origin \in RayOrigins, direction \in Directions :
         Record("spawn_explosive", <<origin, direction>>,
                spawn_explosive(TheWorld, origin, direction), FALSE, marked,
                stamped)

NextAim ==
    \/ BreakBlockFromRay
    \/ PlaceBlockFromRay
    \/ FireBullet
    \/ ThrowExplosive
    \/ TakeDirtyRegions

SpecAim == Init /\ [][NextAim]_vars

----------------------------------------------------------------------------
(* Placing from below: place_block_from_ray from the centre of a cell of  *)
(* the bottom layer, next to placements from above and drains              *)

GroundOrigins ==
    { <<x, 500, z>> : x \in {500, CHUNK_WIDTH * 1000 - 1500},
                      z \in {500, CHUNK_DEPTH * 1000 - 1500} }

PlaceFromGround ==
    /\ steps < MaxSteps
    /\ \E origin \in GroundOrigins, direction \in Directions,
          max \in RayLengths, b \in WrittenBlocks :
         WorldOp("place_block_from_ray", <<origin, direction, max, b>>,
                 place_block_from_ray(TheWorld, origin, direction, max, b))

NextPlace == PlaceFromGround \/ PlaceBlockFromRay \/ TakeDirtyRegions

SpecPlace == Init /\ [][NextPlace]_vars

----------------------------------------------------------------------------
(* Scans: highest_solid_below on columns in and beside the volume, from   *)
(* below the bottom, from inside and from above the top, between          *)
(* explosions                                                               *)

ScanColumns ==
    { <<x, z>> : x \in {-500, 500, 3500, CHUNK_WIDTH * 1000 + 500},
                 z \in {-500, 500, 2500, CHUNK_DEPTH * 1000 + 500} }

ScanHeights == {-500, 500, CHUNK_HEIGHT * 1000 - 1500, CHUNK_HEIGHT * 1000 + 5000}

HighestSolidBelow ==
    /\ steps < MaxSteps
    /\ \E p \in ScanColumns, max_y \in ScanHeights :
         Record("highest_solid_below", <<p[1], p[2], max_y>>, TheWorld,
                highest_solid_below(TheWorld, p[1], p[2], max_y), marked,
                stamped)

NextScan == HighestSolidBelow \/ ExplodeAt

SpecScan == Init /\ [][NextScan]_vars

----------------------------------------------------------------------------
(* generate_at with its worker threads, after construction and after a    *)
(* write.  thread::available_parallelism() gives 1 .. MaxWorkers.          *)

MaxWorkers == 2

GenOrigins == { <<-(CHUNK_WIDTH \div 2), -(CHUNK_DEPTH \div 2)>>, <<0, 0>> }

GenBegin ==
    /\ ~ gen.active
    /\ steps < MaxSteps
    /\ \E o \in GenOrigins, n \in 1 .. Min(MaxWorkers, Max(CHUNK_WIDTH, 1)) :
         /\ origin_x' = o[1]
         /\ origin_z' = o[2]
         /\ gen' = [active |-> TRUE, worker_count |-> n, next_x |-> 0,
                    done |-> {}, produced |-> [w \in 1 .. n |-> << >>]]
    /\ UNCHANGED <<blocks, dirty_regions, mobs, particles, spawn_timer, last,
                   ret, preBlocks, preDirty, preMobs, preMarked, stamped,
                   marked, steps, bullets, explosives, pre, hitLog>>

FetchAddSkips(counter, n) == counter + n + 1

\* what AtomicUsize::fetch_add(n) leaves in the counter; the call returns
\* the value before, in one indivisible step
fetch_add(counter, n) == counter + n

\* one turn of a worker's loop: fetch_add, then break or fill and push
Claim(w) ==
    /\ gen.active
    /\ w \in (1 .. gen.worker_count) \ gen.done
    /\ gen' = IF gen.next_x >= CHUNK_WIDTH
              THEN [gen EXCEPT !.next_x = fetch_add(@, 1),
                               !.done = @ \cup {w}]
              ELSE [gen EXCEPT !.next_x = fetch_add(@, 1),
                               !.produced[w] = Append(@,
                                   <<gen.next_x,
                                     slab(origin_x, origin_z, gen.next_x)>>)]
    /\ UNCHANGED <<blocks, dirty_regions, origin_x, origin_z, mobs,
                   particles, spawn_timer, last, ret, preBlocks, preDirty,
                   preMobs, preMarked, stamped, marked, steps, bullets,
                   explosives, pre, hitLog>>

\* the columns a worker produced, in its order
ColumnsOf(produced) == [k \in DOMAIN produced |-> produced[k][1]]

\* every worker has left its loop: join, copy, stamp, mark all dirty.  The
\* lists the workers returned stay in gen for the record.
GenEnd ==
    /\ gen.active
    /\ gen.done = 1 .. gen.worker_count
    /\ Apply("generate_at", <<origin_x, origin_z>>,
             [TheWorld EXCEPT !.chunk = generate_from(TheChunk, gen.produced)],
             FALSE, RegionIds, StructureCells(origin_x, origin_z))
    /\ gen' = [gen EXCEPT !.active = FALSE]
    /\ UNCHANGED hitLog

\* a write between two generations
Write ==
    /\ ~ gen.active
    /\ steps < MaxSteps
    /\ \E p \in ProbeCells, b \in WrittenBlocks :
         ChunkOp("set_i32", <<origin_x + p[1], p[2], origin_z + p[3], b>>,
                 set_i32(TheChunk, origin_x + p[1], p[2], origin_z + p[3], b))

NextGen ==
    \/ GenBegin
    \/ \E w \in 1 .. MaxWorkers : Claim(w)
    \/ GenEnd
    \/ Write

SpecGen == Init /\ [][NextGen]_vars

\* The threads of thread::scope are scheduled by the operating system: a
\* worker that can take a turn of its loop takes it in the end.
SpecGenFair ==
    /\ Init
    /\ [][NextGen]_vars
    /\ \A w \in 1 .. MaxWorkers : WF_vars(Claim(w))

----------------------------------------------------------------------------
(* Reads: Chunk::get_i32 at coordinates beside the volume and at the far  *)
(* ends of the i32 range, in a build with and in one without overflow     *)
(* checks, between writes and regenerations                                *)

FarX == {I32_MIN, -1000000000, 1000000000, I32_MAX}
FarZ == {I32_MIN, 1, I32_MAX}

GetI32 ==
    /\ steps < MaxSteps
    /\ \E x \in FarX \cup {origin_x - 1, origin_x},
          y \in {-1, 0, CHUNK_HEIGHT - 1, CHUNK_HEIGHT},
          z \in FarZ \cup {origin_z - 1, origin_z},
          overflow_checks \in BOOLEAN :
         Record("get_i32", <<x, y, z, overflow_checks>>, TheWorld,
                get_i32_call(TheChunk, x, y, z, overflow_checks),
                marked, stamped)

NextRead == GetI32 \/ SetI32 \/ GenerateAt

SpecRead == Init /\ [][NextRead]_vars

----------------------------------------------------------------------------
(* Claims about Chunk *)

\* the world coordinate of the cell stored at linear index i
WorldX(i) == origin_x + CellX(i)
WorldZ(i) == origin_z + CellZ(i)

Changed == { i \in Cells : blocks[i] # preBlocks[i] }

DirtySet(d) == { r \in RegionIds : d[r] }

\* C1: after generate_at (World::new runs it as well), every cell of the
\* volume that no stamped structure covers reads through get_i32 as
\* procedural_block_at of its world coordinate: the bulk pass and the
\* single-cell fallback agree, so the bulk pass writes in index()'s layout.
C1_BulkAgreesWithFallback ==
    last.op \in {"new", "generate_at"} =>
        \A i \in Cells \ stamped :
            get_i32(TheChunk, WorldX(i), CellY(i), WorldZ(i))
                = procedural_block_at(WorldX(i), CellY(i), WorldZ(i))

\* the last operation was set_i32(x, y, z, b) at a coordinate in the volume
SetInVolume ==
    /\ last.op = "set_i32"
    /\ InVolume(last.args[1] - origin_x, last.args[2], last.args[3] - origin_z)

SetCell == index(last.args[1] - origin_x, last.args[2], last.args[3] - origin_z)

\* C2: after set_i32(x, y, z, b) at a world coordinate that maps into the
\* volume, get_i32(x, y, z) returns b.
C2_SetThenGet ==
    SetInVolume =>
        get_i32(TheChunk, last.args[1], last.args[2], last.args[3]) = last.args[4]

C2_Witness ==
    /\ SetInVolume
    /\ preBlocks[SetCell] # last.args[4]
    /\ get_i32(TheChunk, last.args[1], last.args[2], last.args[3]) = last.args[4]

\* C8: after a set that changed the stored block of a cell, the cell's
\* region and each of the 26 regions around it that lies in the region grid
\* is dirty.
C8_WriteMarksNeighbours ==
    SetInVolume /\ blocks # preBlocks =>
        \A r \in RegionIds : Touches(r, SetCell) => dirty_regions[r]

\* a write beside a region boundary, after a drain: a region other than the
\* cell's own turns dirty
C8_Witness ==
    /\ SetInVolume
    /\ blocks # preBlocks
    /\ \E r \in RegionIds :
          /\ Touches(r, SetCell)
          /\ RegionX(r) # CellX(SetCell) \div CHUNK_REGION_SIZE
          /\ ~ preDirty[r]
          /\ dirty_regions[r]

\* the regions a drain returned, as region indices
Returned == { region_index(ret[k][1], ret[k][2], ret[k][3]) : k \in DOMAIN ret }

\* C9: the bitmap holds exactly the regions marked since the last drain
\* (those holding or around a cell a set changed; all of them after
\* generate_at); take_dirty_regions returns exactly those, each once, and
\* leaves no region dirty, so a drain right after a drain returns nothing.
C9_DrainReturnsMarked ==
    /\ DirtySet(dirty_regions) = marked
    /\ last.op = "take_dirty_regions" =>
          /\ Returned = preMarked
          /\ Len(ret) = Cardinality(preMarked)
          /\ DirtySet(dirty_regions) = {}

\* a drain that follows an earlier drain and a write in between
C9_Witness ==
    /\ last.op = "take_dirty_regions"
    /\ preMarked # {}
    /\ preMarked # RegionIds
    /\ Returned = preMarked

\* C10: a set of the block a cell of the volume already holds leaves every
\* cell and the dirty bitmap as they were.
C10_SameValueIsNoOp ==
    SetInVolume /\ preBlocks[SetCell] = last.args[4] =>
        blocks = preBlocks /\ dirty_regions = preDirty

\* the same block written again where the cell's region is clean
C10_Witness ==
    /\ SetInVolume
    /\ preBlocks[SetCell] = last.args[4]
    /\ DirtySet(preDirty) = {}
    /\ DirtySet(dirty_regions) = {}

----------------------------------------------------------------------------
(* Claims about World *)

PreWorld ==
    [chunk |-> PreChunk, mobs |-> mobs, bullets |-> bullets,
     explosives |-> explosives, particles |-> particles,
     spawn_timer |-> spawn_timer]

\* the cells other than the one at world coordinate s hold what they held
OthersKept(s) ==
    \A i \in Cells :
        <<WorldX(i), CellY(i), WorldZ(i)>> # s => blocks[i] = preBlocks[i]

\* the first sample of the last ray that lay in the volume and was not empty
FirstHit ==
    Sample(last.args[1], last.args[2], Magnitude(last.args[2]),
           Least(SolidSamples(PreChunk, last.args[1], last.args[2],
                              Magnitude(last.args[2]), last.args[3])))

\* the last in-volume sample of the last ray before FirstHit
LastAir ==
    Sample(last.args[1], last.args[2], Magnitude(last.args[2]),
           Greatest({ k \in 0 .. (Least(SolidSamples(PreChunk, last.args[1],
                                      last.args[2], Magnitude(last.args[2]),
                                      last.args[3])) - 1) :
                        SampleInVolume(Sample(last.args[1], last.args[2],
                                              Magnitude(last.args[2]), k)) }))

ClearedAt(s) ==
    /\ block_at(TheWorld, s[1], s[2], s[3]) = "Air"
    /\ OthersKept(s)

\* C3: when break_block_from_ray returns true, the first in-volume
\* non-empty cell the ray sampled reads as Air through block_at and no other
\* cell changed; when it returns false, no cell changed.
C3_BreakClearsFirstHit ==
    last.op = "break_block_from_ray" =>
        IF ret THEN ClearedAt(FirstHit) ELSE blocks = preBlocks

PlacedAt(a, block) ==
    /\ block_at(PreWorld, a[1], a[2], a[3]) = "Air"
    /\ block_at(TheWorld, a[1], a[2], a[3]) = block
    /\ Cardinality(Changed) = 1
    /\ OthersKept(a)

\* C4: when place_block_from_ray returns true, exactly one cell changed, the
\* last in-volume empty cell sampled before the first non-empty one: it held
\* Air and now holds the block; no placement overwrites a non-empty cell.
C4_PlaceFillsLastAir ==
    last.op = "place_block_from_ray" =>
        /\ ret => PlacedAt(LastAir, last.args[4])
        /\ \A i \in Cells : preBlocks[i] # "Air" => blocks[i] = preBlocks[i]

\* the squared distance of the centre of cell i from a point, compared with
\* the square of a radius
Within(i, center, radius) ==
    (WorldX(i) * 1000 + 500 - center[1]) * (WorldX(i) * 1000 + 500 - center[1])
    + (CellY(i) * 1000 + 500 - center[2]) * (CellY(i) * 1000 + 500 - center[2])
    + (WorldZ(i) * 1000 + 500 - center[3]) * (WorldZ(i) * 1000 + 500 - center[3])
        <= radius * radius

\* C5: after explode_at(center, radius), every cell of the volume that was
\* not empty and whose centre lies within radius of center is Air, and every
\* cell whose centre lies farther holds what it held.
C5_ExplodeClearsBall ==
    last.op = "explode_at" =>
        \A i \in Cells :
            IF Within(i, last.args[1], last.args[2])
            THEN blocks[i] = "Air"
            ELSE blocks[i] = preBlocks[i]

\* C6: explode_at returns true exactly when the stored block of some cell
\* changed.
C6_ExplodeReportsChange ==
    last.op = "explode_at" => (ret <=> blocks # preBlocks)

\* the column spawn_mob_at looks at has no non-empty cell
ColumnIsEmpty(xi, zi) ==
    \A y \in 0 .. (CHUNK_HEIGHT - 1) : block_at(TheWorld, xi, y, zi) = "Air"

ColumnIsOutside(xi, zi) ==
    xi < 0 \/ zi < 0 \/ xi >= CHUNK_WIDTH \/ zi >= CHUNK_DEPTH

\* C7: spawn_mob_at(x, z) leaves the mob list as it was when the column at
\* (x, z) holds no non-empty cell, and when (x, z) is outside the volume.
C7_NoMobWithoutGround ==
    /\ last.op = "spawn_mob_at"
    /\ \/ ColumnIsEmpty(Floor(last.args[1]), Floor(last.args[2]))
       \/ ColumnIsOutside(Floor(last.args[1]), Floor(last.args[2]))
    => Len(mobs) = preMobs

----------------------------------------------------------------------------
(* Claims about writes, reads and spawns at the edge of the volume *)

\* the last operation was a write whose coordinate lies outside the volume:
\* a set, break_block or set_block with a local coordinate at or beyond a
\* size, or a set_i32 with a world coordinate that maps outside
WriteOutside ==
    \/ /\ last.op \in {"set", "break_block", "set_block"}
       /\ ~ InVolume(last.args[1], last.args[2], last.args[3])
    \/ /\ last.op = "set_i32"
       /\ ~ InVolume(last.args[1] - origin_x, last.args[2],
                     last.args[3] - origin_z)

\* C11: Chunk::set, Chunk::set_i32, World::break_block and World::set_block
\* with a coordinate outside the volume change no cell and no bit of the
\* dirty bitmap.
C11_OutsideWriteIsNoOp ==
    WriteOutside => blocks = preBlocks /\ dirty_regions = preDirty

\* a set one past the last x where the bitmap is clean and the array slot
\* that index() would give for the coordinate holds another block
C11_Witness ==
    /\ last.op = "set"
    /\ last.args[1] = CHUNK_WIDTH
    /\ InVolume(0, last.args[2], last.args[3])
    /\ index(last.args[1], last.args[2], last.args[3]) < NumCells
    /\ preBlocks[index(last.args[1], last.args[2], last.args[3])] # last.args[4]
    /\ DirtySet(preDirty) = {}
    /\ blocks = preBlocks
    /\ DirtySet(dirty_regions) = {}

\* world coordinates in and up to two cells around the volume, one cell
\* below and above it
Probes ==
    { <<x, y, z>> : x \in (origin_x - 2) .. (origin_x + CHUNK_WIDTH + 1),
                    y \in -1 .. CHUNK_HEIGHT,
                    z \in (origin_z - 2) .. (origin_z + CHUNK_DEPTH + 1) }

\* the world coordinate p maps into the volume
Stored(p) ==
    /\ ~ SubOverflows(p[1], origin_x)
    /\ ~ SubOverflows(p[3], origin_z)
    /\ InVolume(p[1] - origin_x, p[2], p[3] - origin_z)

\* what C12 says a read outside the volume returns
OutsideBlock(p) ==
    IF p[2] < 0 \/ p[2] >= CHUNK_HEIGHT THEN "Air"
    ELSE procedural_block_at(p[1], p[2], p[3])

\* C12: get_i32 is total outside the volume: it returns Air for y < 0 and
\* y >= CHUNK_HEIGHT, whatever x and z, and procedural_block_at(x, y, z)
\* where x or z maps outside, a value that no set or regeneration in
\* between changes.
C12_OutsideReadIsProcedural ==
    /\ \A p \in Probes :
          ~ Stored(p) => get_i32(TheChunk, p[1], p[2], p[3]) = OutsideBlock(p)
    /\ last.op = "get_i32" /\ ~ Stored(last.args) => ret = OutsideBlock(last.args)

\* C13: get_i32 never panics, whatever the three i32 coordinates: none of
\* the i32 operations on the lookup path (x - origin_x, z - origin_z, the
\* sums of the ore formulas) overflows.
C13_LookupNeverOverflows ==
    last.op = "get_i32" =>
        /\ ret # "panic"
        /\ ~ get_i32_overflows(TheChunk, last.args[1], last.args[2],
                               last.args[3])

\* C14: generate_at is deterministic: the block array it leaves is the same
\* for the same origin whatever the number of worker threads and the order
\* in which they took the columns, and whatever the array held before.
C14_GenerateIsDeterministic ==
    last.op = "generate_at" /\ ~ gen.active /\ gen.worker_count > 0 =>
        blocks = generate_at(new_chunk, origin_x, origin_z).blocks

\* a generation after a write that changed a cell, by two workers of which
\* the second took the first column and each took a column out of turn
C14_Witness ==
    /\ last.op = "generate_at"
    /\ ~ gen.active
    /\ gen.worker_count = 2
    /\ steps = 2
    /\ blocks # preBlocks
    /\ Len(gen.produced[1]) >= 2
    /\ Len(gen.produced[2]) >= 2
    /\ gen.produced[2][1][1] = 0
    /\ gen.produced[2][2][1] # 2
    /\ blocks = generate_at(new_chunk, origin_x, origin_z).blocks

----------------------------------------------------------------------------
(* Claims about bullets and mobs *)

\* the hits of the last update_bullets on mob m of the list before the call
HitsOn(m) == { k \in DOMAIN hitLog.hits : hitLog.hits[k].mob = m }

\* the mobs before the call, each with 34 taken off its health per hit
Damaged ==
    [m \in DOMAIN pre.mobs |->
        [pre.mobs[m] EXCEPT !.health = @ - 34 * Cardinality(HitsOn(m))]]

\* C15: in one update_bullets call a bullet damages at most one mob, takes
\* exactly its damage (34) off that mob's health, and is gone from the
\* bullet list after the call, so a bullet registers at most one hit in its
\* lifetime.
C15_OneHitPerBullet ==
    last.op = "update_bullets" =>
        /\ \A j, k \in DOMAIN hitLog.hits :
              j # k => hitLog.hits[j].bullet # hitLog.hits[k].bullet
        /\ \A k \in DOMAIN hitLog.hits :
              /\ pre.bullets[hitLog.hits[k].bullet].damage = 34
              /\ \A n \in DOMAIN hitLog.kept :
                    hitLog.kept[n] # hitLog.hits[k].bullet
        /\ Len(bullets) = Len(hitLog.kept)
        /\ mobs = SelectSeq(Damaged, LAMBDA mob : mob.health > 0)

\* two bullets hit the same mob in one call while another mob stood on the
\* same spot and a third bullet flew on: the first mob lost 68, the other
\* nothing, the two bullets are gone and the third stayed
C15_Witness ==
    /\ last.op = "update_bullets"
    /\ Len(hitLog.hits) = 2
    /\ Len(pre.bullets) = 3
    /\ Len(bullets) = 1
    /\ \E m, o \in DOMAIN pre.mobs :
          /\ m # o
          /\ pre.mobs[m].position = pre.mobs[o].position
          /\ HitsOn(m) = {1, 2}
          /\ mobs[m].health = pre.mobs[m].health - 68
          /\ mobs[o].health = pre.mobs[o].health

\* C16: after every update_bullets call no mob with health <= 0 is in the
\* mob list.
C16_NoDeadMobStays ==
    last.op = "update_bullets" => \A m \in DOMAIN mobs : mobs[m].health > 0

\* a call in which a mob took its third hit and left the list
C16_Witness ==
    /\ last.op = "update_bullets"
    /\ \E m \in DOMAIN Damaged : Damaged[m].health <= 0
    /\ Len(mobs) = Len(pre.mobs) - 1
    /\ ret = TRUE
    /\ \A m \in DOMAIN mobs : mobs[m].health > 0

\* C17: the mob list never holds more than MAX_MOBS (20) mobs: spawn_mob_at
\* and try_spawn_mob_near leave a list of 20 as it is, and
\* try_spawn_mob_near returns true exactly when the list grew by one mob.
C17_MobCap ==
    /\ Len(mobs) <= MAX_MOBS
    /\ last.op \in {"spawn_mob_at", "try_spawn_mob_near"}
          /\ Len(pre.mobs) >= MAX_MOBS
       => mobs = pre.mobs
    /\ last.op = "try_spawn_mob_near" =>
          /\ ret \in BOOLEAN
          /\ ret <=> Len(mobs) = Len(pre.mobs) + 1
          /\ ~ ret => mobs = pre.mobs
          /\ ret => SubSeq(mobs, 1, Len(pre.mobs)) = pre.mobs

\* both calls on a full list, one after the other
C17_Witness ==
    /\ last.op = "try_spawn_mob_near"
    /\ Len(pre.mobs) = MAX_MOBS
    /\ Len(mobs) = MAX_MOBS
    /\ ret = FALSE
    /\ steps = MaxSpawnSteps

----------------------------------------------------------------------------
(* Claims about rays *)

\* the last operation took a direction and the direction was the zero vector
ZeroDirection ==
    /\ last.op \in {"break_block_from_ray", "place_block_from_ray",
                    "spawn_bullet", "spawn_explosive"}
    /\ Magnitude2(last.args[2]) = 0

\* C18: with a direction of length zero, break_block_from_ray and
\* place_block_from_ray return false and leave the chunk, the dirty bitmap
\* and the particle list as they were, and spawn_bullet and spawn_explosive
\* add no entity.
C18_ZeroDirectionIsNoOp ==
    ZeroDirection =>
        /\ blocks = preBlocks
        /\ dirty_regions = preDirty
        /\ particles = pre.particles
        /\ bullets = pre.bullets
        /\ explosives = pre.explosives
        /\ mobs = pre.mobs
        /\ last.op \in {"break_block_from_ray", "place_block_from_ray"}
              => ret = FALSE

\* a bullet fired with no direction after one fired in a direction: the
\* list keeps its one bullet
C18_Witness ==
    /\ ZeroDirection
    /\ last.op = "spawn_bullet"
    /\ Len(pre.bullets) = 1
    /\ bullets = pre.bullets
    /\ explosives = << >>

\* the samples of the last ray, a ray with a direction, that lay in the
\* volume and read as non-empty before the call
RayHits ==
    SolidSamples(PreChunk, last.args[1], last.args[2],
                 Magnitude(last.args[2]), last.args[3])

\* a sample before the first of RayHits lay in the volume and read as Air
AirBeforeHit ==
    \E k \in 0 .. (Least(RayHits) - 1) :
        /\ SampleInVolume(Sample(last.args[1], last.args[2],
                                 Magnitude(last.args[2]), k))
        /\ block_at(PreWorld, Sample(last.args[1], last.args[2],
                                     Magnitude(last.args[2]), k)[1],
                    Sample(last.args[1], last.args[2],
                           Magnitude(last.args[2]), k)[2],
                    Sample(last.args[1], last.args[2],
                           Magnitude(last.args[2]), k)[3]) = "Air"

\* place_block_from_ray has nothing to place on
NothingToPlace ==
    \/ last.args[4] = "Air"
    \/ /\ Magnitude2(last.args[2]) > 0
       /\ \/ RayHits = {}
          \/ RayHits # {} /\ ~ AirBeforeHit

\* C19: place_block_from_ray returns false and changes nothing when the
\* block to place is Air, when no sample within max_distance lies in the
\* volume and reads as non-empty, and when the first such sample comes
\* before any in-volume sample that reads as Air.
C19_NoPlacementWithoutAir ==
    last.op = "place_block_from_ray" /\ NothingToPlace =>
        /\ ret = FALSE
        /\ blocks = preBlocks
        /\ dirty_regions = preDirty
        /\ particles = pre.particles

\* a ray with a direction and a block to place whose first in-volume sample
\* reads as non-empty
C19_Witness ==
    /\ last.op = "place_block_from_ray"
    /\ last.args[4] # "Air"
    /\ Magnitude2(last.args[2]) > 0
    /\ RayHits # {}
    /\ ~ AirBeforeHit
    /\ ret = FALSE
    /\ blocks = preBlocks

----------------------------------------------------------------------------
(* Claims about the column scan *)

\* the column and the heights the last highest_solid_below looked at
ScanX == Floor(last.args[1])
ScanZ == Floor(last.args[2])
ScanTop == Min(Floor(last.args[3]), CHUNK_HEIGHT - 1)

\* the cell of the scanned column at height y reads as non-empty
ReadsSolid(y) == block_at(TheWorld, ScanX, y, ScanZ) # "Air"

\* C20: highest_solid_below(x, z, max_y) returns None when floor(x) or
\* floor(z) lies outside [0, width) x [0, depth); otherwise y + 1 for the
\* greatest y <= min(floor(max_y), height - 1) whose cell (floor(x), y,
\* floor(z)) reads as non-empty, and 0 when there is no such y.
C20_HighestSolidBelow ==
    last.op = "highest_solid_below" =>
        IF ColumnIsOutside(ScanX, ScanZ) THEN ret = None
        ELSE /\ ret.some
             /\ \/ /\ ret.v = 0
                   /\ \A y \in 0 .. ScanTop : ~ ReadsSolid(y)
                \/ \E y \in 0 .. ScanTop :
                      /\ ret.v = (y + 1) * 1000
                      /\ ReadsSolid(y)
                      /\ \A above \in (y + 1) .. ScanTop : ~ ReadsSolid(above)

\* a scan that passed an empty cell and stopped on a non-empty one that has
\* another non-empty cell below it
C20_Witness ==
    /\ last.op = "highest_solid_below"
    /\ ~ ColumnIsOutside(ScanX, ScanZ)
    /\ ret.some
    /\ ret.v >= 2000
    /\ ret.v <= ScanTop * 1000
    /\ ReadsSolid((ret.v \div 1000) - 1)
    /\ ~ ReadsSolid(ret.v \div 1000)
    /\ \E y \in 0 .. ((ret.v \div 1000) - 2) : ReadsSolid(y)

----------------------------------------------------------------------------
(* Claims about the worker pool of generate_at *)

\* the columns worker w has pushed on its list, in its order
Taken(w) == ColumnsOf(gen.produced[w])

\* the (worker, place in its list) pairs that hold column x
Takers(x) ==
    { p \in (1 .. gen.worker_count) \X (1 .. CHUNK_WIDTH) :
        p[2] <= Len(Taken(p[1])) /\ Taken(p[1])[p[2]] = x }

\* the columns handed out so far: the counter's values below the width
HandedOut == 0 .. (Min(gen.next_x, CHUNK_WIDTH) - 1)

\* every column handed out is on exactly one list, once, and nothing else is
ClaimedOnce ==
    gen.worker_count > 0 =>
        /\ \A x \in HandedOut : Cardinality(Takers(x)) = 1
        /\ \A w \in 1 .. gen.worker_count :
              /\ Len(Taken(w)) <= CHUNK_WIDTH
              /\ \A k \in DOMAIN Taken(w) : Taken(w)[k] \in HandedOut
        /\ gen.done # {} => gen.next_x >= CHUNK_WIDTH

\* the workers are joined: each left its loop, and every column is on a list
AllJoined ==
    /\ gen.done = 1 .. gen.worker_count
    /\ HandedOut = 0 .. (CHUNK_WIDTH - 1)

\* during generate_at the block array and the dirty bitmap stay as they are
\* until the workers are joined, and the call returns only then
WrittenAfterJoin ==
    gen.active =>
        (blocks' # blocks \/ dirty_regions' # dirty_regions \/ ~ gen'.active
            => AllJoined /\ ClaimedOnce)

\* C21: during generate_at every column 0 .. CHUNK_WIDTH - 1 is taken by
\* exactly one worker through the shared counter, none twice and none
\* skipped, under every interleaving; every worker leaves its loop; and the
\* block array is written and the call returns only after all workers are
\* joined and all slabs collected.
C21_ColumnsClaimedOnce ==
    /\ []ClaimedOnce
    /\ [][WrittenAfterJoin]_vars
    /\ \A w \in 1 .. MaxWorkers :
          (gen.active /\ w <= gen.worker_count) ~> (w \in gen.done)

\* a finished generation by two workers whose turns alternated: the first
\* worker took the even columns, the second the odd ones
C21_Witness ==
    /\ ~ gen.active
    /\ gen.worker_count = 2
    /\ AllJoined
    /\ last.op = "generate_at"
    /\ \A k \in DOMAIN Taken(1) : Taken(1)[k] = 2 * (k - 1)
    /\ \A k \in DOMAIN Taken(2) : Taken(2)[k] = 2 * k - 1
    /\ Len(Taken(1)) + Len(Taken(2)) = CHUNK_WIDTH

----------------------------------------------------------------------------
(* Claims about a bullet's flight *)

\* where bullet k of the list before the last update_bullets came to be in
\* that call
Flown(k) ==
    fly(pre.bullets[k], << pre.bullets[k].velocity[1],
                           pre.bullets[k].velocity[2] - 2,
                           pre.bullets[k].velocity[3] >>)

\* the cell that holds the new position of bullet k reads as non-empty
InBlock(k) ==
    block_at(TheWorld, Floor(Flown(k).position[1]),
             Floor(Flown(k).position[2]), Floor(Flown(k).position[3])) # "Air"

\* bullet k of the list before the call is in the list after it
Kept(k) == \E n \in DOMAIN hitLog.kept : hitLog.kept[n] = k

\* bullet k damaged a mob in the call
Hit(k) == \E n \in DOMAIN hitLog.hits : hitLog.hits[n].bullet = k

\* C22: a bullet whose new position lies in a non-empty cell is removed in
\* that update_bullets call and damages no mob in it, whether or not the
\* segment it travelled intersects a mob.
C22_BlockStopsBullet ==
    last.op = "update_bullets" =>
        \A k \in DOMAIN pre.bullets : InBlock(k) => ~ Kept(k) /\ ~ Hit(k)

\* the bullets the last update_bullets kept have travelled farther than
\* before it, and none of them has reached its max_distance
GrewAndInRange ==
    last.op = "update_bullets" =>
        \A n \in DOMAIN bullets :
            /\ bullets[n].traveled > pre.bullets[hitLog.kept[n]].traveled
            /\ bullets[n].traveled < bullets[n].max_distance

NeverShrinksAndInRange ==
    last.op = "update_bullets" =>
        \A n \in DOMAIN bullets :
            /\ bullets[n] = Flown(hitLog.kept[n])
            /\ bullets[n].traveled >= pre.bullets[hitLog.kept[n]].traveled
            /\ Magnitude2(bullets[n].velocity) > 0 =>
                  bullets[n].traveled > pre.bullets[hitLog.kept[n]].traveled
            /\ bullets[n].max_distance = 100000
            /\ bullets[n].traveled < bullets[n].max_distance

----------------------------------------------------------------------------
(* Claims about explosives *)

\* where explosive k of the list before the last update_explosives came to
\* be in that call
Drifted(k) ==
    drift(pre.explosives[k], << pre.explosives[k].velocity[1],
                                pre.explosives[k].velocity[2] - 4,
                                pre.explosives[k].velocity[3] >>)

\* the explode_at calls the last update_explosives made for explosive k
BlastsOf(k) ==
    { n \in DOMAIN hitLog.blasts : hitLog.blasts[n].explosive = k }

\* the cell explosive k entered reads as non-empty in chunk c
Entered(c, k) ==
    get_i32(c, Floor(Drifted(k).position[1]), Floor(Drifted(k).position[2]),
            Floor(Drifted(k).position[3])) # "Air"

\* explosive k went off in the call: it left the list and explode_at was
\* called once, at its new position with its radius
WentOff(k) ==
    /\ ~ Kept(k)
    /\ Cardinality(BlastsOf(k)) = 1
    /\ \A n \in BlastsOf(k) :
          /\ hitLog.blasts[n].center = Drifted(k).position
          /\ hitLog.blasts[n].radius = pre.explosives[k].radius

\* explosive k stayed in the list, as drifted, and no explode_at was called
\* for it
Stayed(k) ==
    /\ \E n \in DOMAIN explosives :
          hitLog.kept[n] = k /\ explosives[n] = Drifted(k)
    /\ Cardinality({ n \in DOMAIN hitLog.kept : hitLog.kept[n] = k }) = 1
    /\ BlastsOf(k) = {}

\* Explosions only clear cells, so a cell that reads as non-empty after the
\* call did so when the explosive entered it, and a cell that read as Air
\* before the call did so then.
FuseRuns ==
    /\ \A n \in DOMAIN explosives :
          explosives[n].timer > 0 /\ explosives[n].timer <= 120
    /\ last.op = "spawn_explosive" /\ Len(explosives) > Len(pre.explosives)
          => explosives[Len(explosives)].timer = 120
    /\ last.op = "update_explosives" =>
          /\ Len(explosives) = Len(hitLog.kept)
          /\ \A k \in DOMAIN pre.explosives :
                /\ WentOff(k) \/ Stayed(k)
                /\ Drifted(k).timer = pre.explosives[k].timer - 1
                /\ Drifted(k).timer <= 0 \/ Entered(TheChunk, k) => WentOff(k)
                /\ WentOff(k) =>
                      Drifted(k).timer <= 0 \/ Entered(PreChunk, k)

\* C24: every explosive is removed, and explode_at is called exactly once
\* for it, at its position and with its radius, in the update_explosives
\* call in which its timer (120 at the throw, one less per call) reaches 0
\* or in an earlier call in which the cell it enters is non-empty; after a
\* call no explosive with timer <= 0 is in the list.
C24_ExplosivesGoOff ==
    /\ []FuseRuns
    /\ (explosives # << >>) ~> (explosives = << >>)

\* the 120th call after two throws: both timers reached 0, one of them in a
\* cell that reads as Air, and explode_at was called for each
C24_Witness ==
    /\ last.op = "update_explosives"
    /\ Len(pre.explosives) = 2
    /\ explosives = << >>
    /\ Len(hitLog.blasts) = 2
    /\ \A k \in DOMAIN pre.explosives :
          pre.explosives[k].timer = 1 /\ WentOff(k)
    /\ \E k \in DOMAIN pre.explosives : ~ Entered(PreChunk, k)

----------------------------------------------------------------------------
(* Claims about the removal of entries during the reverse loops *)

\* the visits are the entries 1 .. n of the list before the call, each once
OnceEach(visits, n) ==
    /\ Len(visits) = n
    /\ \A k \in 1 .. n :
          Cardinality({ j \in DOMAIN visits : visits[j] = k }) = 1

\* C29: update_bullets advances every bullet that was in the list at the
\* start of the call exactly once and update_explosives every explosive:
\* the slots visited are those of the entries of the list before the call,
\* each once and none beyond the list, and every entry that stays is the
\* entry of before the call advanced once.
C29_EveryEntryAdvancedOnce ==
    /\ last.op = "update_bullets" =>
          /\ OnceEach(hitLog.visits, Len(pre.bullets))
          /\ Len(bullets) = Len(hitLog.kept)
          /\ \A n \in DOMAIN bullets : bullets[n] = Flown(hitLog.kept[n])
          /\ explosives = pre.explosives
    /\ last.op = "update_explosives" =>
          /\ OnceEach(hitLog.visits, Len(pre.explosives))
          /\ Len(explosives) = Len(hitLog.kept)
          /\ \A n \in DOMAIN explosives :
                explosives[n] = Drifted(hitLog.kept[n])
          /\ bullets = pre.bullets

\* of three bullets the first left the list, so that the third, advanced
\* before, took its slot
C29_Witness ==
    /\ last.op = "update_bullets"
    /\ Len(pre.bullets) = 3
    /\ hitLog.kept = <<3, 2>>
    /\ hitLog.visits = <<3, 2, 1>>

----------------------------------------------------------------------------
(* Claims about terrain_block_at *)

\* what the three cases of the claim allow terrain_block_at to return for
\* height y of a column of the biome with surface height h
TerrainCase(y, biome, h, sea_level, block) ==
    IF y <= h THEN block \in Block \ {"Air"}
    ELSE IF y <= sea_level
    THEN block = (IF biome = "SnowBiome" THEN "Ice" ELSE "Water")
    ELSE block = "Air"

\* C27: for a column with surface height h and every height y,
\* terrain_block_at returns a non-Air block when y <= h; Ice in the Snow
\* biome and Water in every other biome when h < y <= sea level; Air when
\* y > h and y > sea level.
C27_TerrainLayers ==
    last.op = "terrain_block_at" =>
        TerrainCase(last.args[2], last.args[4], last.args[5], last.args[6],
                    ret)

----------------------------------------------------------------------------
(* Claims about the dirty bitmap after construction and generation *)

AllDirty(dirty) == \A r \in RegionIds : dirty[r]

\* out holds every region of the grid once and nothing else
EveryRegionOnce(out) ==
    /\ Len(out) = RegionsX * RegionsY * RegionsZ
    /\ \A k \in DOMAIN out :
          /\ out[k][1] \in 0 .. (RegionsX - 1)
          /\ out[k][2] \in 0 .. (RegionsY - 1)
          /\ out[k][3] \in 0 .. (RegionsZ - 1)
    /\ \A rx \in 0 .. (RegionsX - 1), ry \in 0 .. (RegionsY - 1),
          rz \in 0 .. (RegionsZ - 1) :
          Cardinality({ k \in DOMAIN out : out[k] = <<rx, ry, rz>> }) = 1

\* C28: every region is dirty right after Chunk::new and right after
\* generate_at returns, so a take_dirty_regions that comes first after
\* either (writes may come between, they only mark) returns every region of
\* the grid, each once, each index within the grid.
C28_AllDirtyAfterGeneration ==
    /\ AllDirty(new_chunk.dirty_regions)
    /\ EveryRegionOnce(take_dirty_regions(new_chunk).out)
    /\ last.op \in {"new", "generate_at"} /\ ~ gen.active =>
          AllDirty(dirty_regions)
    /\ last.op = "take_dirty_regions" /\ AllDirty(preDirty) =>
          EveryRegionOnce(ret)

\* the take that follows a generation at another origin
C28_Witness ==
    /\ last.op = "take_dirty_regions"
    /\ steps = 2
    /\ origin_x = 0
    /\ AllDirty(preDirty)
    /\ EveryRegionOnce(ret)
    /\ ~ \E r \in RegionIds : dirty_regions[r]

----------------------------------------------------------------------------
(* Claims about what Chunk::set leaves alone *)

VolumeCells ==
    (0 .. (CHUNK_WIDTH - 1)) \X (0 .. (CHUNK_HEIGHT - 1))
        \X (0 .. (CHUNK_DEPTH - 1))

\* the linear index of every in-bounds cell lies in the block array, and no
\* two in-bounds cells share one
IndexIsInjective ==
    /\ \A p \in VolumeCells : index(p[1], p[2], p[3]) \in DOMAIN new_chunk.blocks
    /\ Cardinality({ index(p[1], p[2], p[3]) : p \in VolumeCells })
           = Cardinality(VolumeCells)

\* C30: Chunk::set on an in-bounds cell changes the stored block of that
\* cell only: every other in-bounds cell holds the same block before and
\* after, the linear index being injective over the in-bounds cells and
\* below the length of the block array.
C30_SetTouchesOneCell ==
    /\ IndexIsInjective
    /\ DOMAIN blocks = DOMAIN new_chunk.blocks
    /\ last.op = "set" /\ InVolume(last.args[1], last.args[2], last.args[3]) =>
          \A p \in VolumeCells :
              blocks[index(p[1], p[2], p[3])] =
                  IF p = <<last.args[1], last.args[2], last.args[3]>>
                  THEN last.args[4]
                  ELSE preBlocks[index(p[1], p[2], p[3])]

\* a set that changed the last cell of the volume
C30_Witness ==
    /\ last.op = "set"
    /\ last.args[1] = CHUNK_WIDTH - 1
    /\ last.args[2] = CHUNK_HEIGHT - 1
    /\ last.args[3] = CHUNK_DEPTH - 1
    /\ blocks # preBlocks
    /\ blocks[CHUNK_WIDTH * CHUNK_HEIGHT * CHUNK_DEPTH - 1] = last.args[4]

----------------------------------------------------------------------------
(* Claims about update_mobs *)

\* the player of the last update_mobs call
Player == last.args[1]

\* the world the movement loop of the last update_mobs started from: the
\* world before the call after the spawn timer's turn
LoopStart ==
    spawn_due([chunk |-> PreChunk, mobs |-> pre.mobs, bullets |-> pre.bullets,
               explosives |-> pre.explosives, particles |-> pre.particles,
               spawn_timer |-> pre.spawn_timer],
              Player).world

\* mob i attacked in the last update_mobs call
Attacked(i) == \E n \in DOMAIN hitLog.attacks : hitLog.attacks[n] = i

\* the mob's attack cooldown when the attack test was made
CooledDown(m) == IF m.attack_cooldown > 0 THEN m.attack_cooldown - 1
                 ELSE m.attack_cooldown

\* C25: a mob damages the player only when, after its move in that call, it
\* is within radius + 0.35 of the player horizontally and within its height
\* vertically and its attack cooldown is <= 0; each attack adds 8 to the
\* damage returned and sets the mob's cooldown to 45, and a cooldown loses 1
\* per call, so a mob that attacked does not attack in the 44 calls that
\* follow; the damage returned is at most 8 times the number of mobs.
C25_AttackNeedsTouchAndCooldown ==
    last.op = "update_mobs" =>
        /\ Len(mobs) = Len(LoopStart.mobs)
        /\ ret.player_damage = 8 * Len(hitLog.attacks)
        /\ ret.player_damage <= 8 * Len(mobs)
        /\ \A i \in DOMAIN mobs :
              /\ Cardinality({ n \in DOMAIN hitLog.attacks :
                                 hitLog.attacks[n] = i }) <= 1
              /\ Attacked(i) =>
                    /\ touches(mobs[i], Player)
                    /\ CooledDown(LoopStart.mobs[i]) <= 0
                    /\ mobs[i].attack_cooldown = 45
              /\ ~ Attacked(i) =>
                    mobs[i].attack_cooldown = CooledDown(LoopStart.mobs[i])
              /\ mobs[i].attack_cooldown \in 0 .. 45
              /\ mobs[i].attack_cooldown \in 1 .. 44 => ~ Attacked(i)

\* the second attack of a mob, 45 calls after its first
C25_Witness ==
    /\ last.op = "update_mobs"
    /\ steps >= 46
    /\ \E i \in DOMAIN mobs :
          /\ Attacked(i)
          /\ pre.mobs[i].attack_cooldown = 1
    /\ ret.player_damage = 8

\* no two mobs' horizontal disks overlap
NoOverlap(mob_list) ==
    \A i, j \in DOMAIN mob_list :
        i < j =>
            (mob_list[i].position[1] - mob_list[j].position[1])
                * (mob_list[i].position[1] - mob_list[j].position[1])
            + (mob_list[i].position[3] - mob_list[j].position[3])
                * (mob_list[i].position[3] - mob_list[j].position[3])
            >= (mob_list[i].radius + mob_list[j].radius)
                * (mob_list[i].radius + mob_list[j].radius)

\* a cell that the box of a mob at position p reaches into reads as
\* non-empty
InTerrain(m, p) ==
    \E bx \in Floor(p[1] - m.radius) .. Floor(p[1] + m.radius),
       by \in Floor(p[2]) .. Floor(p[2] + m.height),
       bz \in Floor(p[3] - m.radius) .. Floor(p[3] + m.radius) :
        block_at(TheWorld, bx, by, bz) # "Air"

\* C26: if no two mobs' horizontal disks overlap when the movement loop of
\* update_mobs starts, none overlap when it has moved every mob, and every
\* axis move it accepted put the mob at a position that does not collide
\* with terrain.
C26_MovesKeepMobsApart ==
    last.op = "update_mobs" =>
        /\ NoOverlap(LoopStart.mobs) => NoOverlap(mobs)
        /\ \A n \in DOMAIN hitLog.moves :
              ~ InTerrain(mobs[hitLog.moves[n].mob], hitLog.moves[n].position)

\* a call in which a mob's move along an axis was refused only because of
\* another mob, and another move was accepted
C26_Witness ==
    /\ last.op = "update_mobs"
    /\ NoOverlap(LoopStart.mobs)
    /\ hitLog.moves # << >>
    /\ \E i \in DOMAIN mobs :
          /\ mobs[i].position[1] = LoopStart.mobs[i].position[1]
          /\ mobs[i].position[3] = LoopStart.mobs[i].position[3]
          /\ \E j \in DOMAIN mobs :
                /\ j # i
                /\ (mobs[i].position[1] - mobs[j].position[1])
                       * (mobs[i].position[1] - mobs[j].position[1])
                   + (mobs[i].position[3] - mobs[j].position[3])
                       * (mobs[i].position[3] - mobs[j].position[3])
                   < (mobs[i].radius + mobs[j].radius + 40)
                       * (mobs[i].radius + mobs[j].radius + 40)
          /\ ~ InTerrain(mobs[i], mobs[i].position)

=============================================================================
